---------------------------- MODULE Spec2Model ----------------------------
(***************************************************************************)
(* Agentic honeypot API: signal extraction (signals.py), the policy        *)
(* engine (policy.py), the conversation memory (memory.py), the reply      *)
(* engine (agent.py) and the request pipeline (main.py).                   *)
(*                                                                         *)
(* Text is modelled as TLA+ strings; Python's str operations (lower, in,   *)
(* split, isalpha, re.search with \b) are operators over the characters.   *)
(***************************************************************************)
EXTENDS Integers, Sequences, FiniteSets, TLC

VARIABLES
    CONVERSATIONS,   \* memory.py CONVERSATIONS: conversation_id -> list of entries
    response,        \* conversation_id -> envelope last returned for it
    request,         \* the request handled last
    prev_response,   \* conversation_id -> envelope returned for it before `response`
    groq_client,     \* agent.py _groq_client (memoized handle or None)
    GROQ_API_KEY,    \* the process environment's API key (present or not)
    handled,         \* number of requests handled so far
    signals,         \* policy harness: signal record of the turn evaluated
    decision,        \* policy harness: PolicyDecision returned for that turn
    conversation_history,  \* policy harness: decisions of the earlier turns
    appended,        \* log: every (conversation_id, entry) passed to append_message
    engagement,      \* log: the agent replies given in a conversation, with their branch
    escalation,      \* the dict detect_escalation returned last
    reply,           \* the string generate_agent_reply returned last
    pending          \* the requests whose handler is suspended at `await request.json()`

vars == <<CONVERSATIONS, response, request, prev_response, groq_client,
          GROQ_API_KEY, handled, signals, decision, conversation_history,
          appended, engagement, escalation, reply, pending>>

\* the variables only the memory, engagement, reply and concurrency
\* specifications write
logs == <<appended, engagement, escalation, reply, pending>>

\* Python's None where a string is expected, and where a record is expected
None == "None"
Absent == [none |-> TRUE]

-----------------------------------------------------------------------------
(* Python string primitives *)

Uppers == "ABCDEFGHIJKLMNOPQRSTUVWXYZ"
Lowers == "abcdefghijklmnopqrstuvwxyz"
Digits == "0123456789"

CharAt(s, i) == SubSeq(s, i, i)

CharsOf(s) == {CharAt(s, i) : i \in 1..Len(s)}

LowerLetters == CharsOf(Lowers)
UpperLetters == CharsOf(Uppers)
AsciiLetters == LowerLetters \cup UpperLetters

\* regex class \w restricted to ASCII text
WordChars == AsciiLetters \cup CharsOf(Digits) \cup {"_"}

\* characters str.split() and str.strip() treat as whitespace
Whitespace == {" ", "\t", "\n"}

LowerChar(c) ==
    IF c \in UpperLetters
    THEN CharAt(Lowers, CHOOSE i \in 1..Len(Uppers) : CharAt(Uppers, i) = c)
    ELSE c

RECURSIVE Lower(_)
\* str.lower()
Lower(s) == IF s = "" THEN "" ELSE LowerChar(CharAt(s, 1)) \o Lower(SubSeq(s, 2, Len(s)))

\* Python `p in t` for strings
Contains(t, p) ==
    \E i \in 1..(Len(t) - Len(p) + 1) : SubSeq(t, i, i + Len(p) - 1) = p

\* re.search(rf"\b{re.escape(p)}\b", t) for a phrase p that starts and ends
\* with a word character
WordSearch(t, p) ==
    \E i \in 1..(Len(t) - Len(p) + 1) :
        /\ SubSeq(t, i, i + Len(p) - 1) = p
        /\ (i = 1 \/ CharAt(t, i - 1) \notin WordChars)
        /\ (i + Len(p) - 1 = Len(t) \/ CharAt(t, i + Len(p)) \notin WordChars)

RECURSIVE SplitFrom(_, _, _)
\* str.split(): maximal runs of non-whitespace characters, scanning from i
\* with the current run `cur`
SplitFrom(s, i, cur) ==
    IF i > Len(s)
    THEN IF cur = "" THEN <<>> ELSE <<cur>>
    ELSE IF CharAt(s, i) \in Whitespace
         THEN IF cur = "" THEN SplitFrom(s, i + 1, "")
              ELSE <<cur>> \o SplitFrom(s, i + 1, "")
         ELSE SplitFrom(s, i + 1, cur \o CharAt(s, i))

Split(s) == SplitFrom(s, 1, "")

\* w.isascii() and w.isalpha()
IsAsciiAlpha(w) == w # "" /\ \A i \in 1..Len(w) : CharAt(w, i) \in AsciiLetters

RECURSIVE Strip(_)
\* str.strip()
Strip(s) ==
    IF s = "" THEN ""
    ELSE IF CharAt(s, 1) \in Whitespace THEN Strip(SubSeq(s, 2, Len(s)))
    ELSE IF CharAt(s, Len(s)) \in Whitespace THEN Strip(SubSeq(s, 1, Len(s) - 1))
    ELSE s

\* [w for w in lexicon if w in text]: the lexicon entries found, in lexicon order
Matches(lexicon, text) == SelectSeq(lexicon, LAMBDA w : Contains(text, w))

\* the elements of a list
Range(seq) == {seq[i] : i \in 1..Len(seq)}

-----------------------------------------------------------------------------
(* signals.py: lexicons *)

HIGH_RISK_CATEGORIES ==
    {"credential_sharing", "remote_access_installation",
     "immediate_payment", "account_access_sharing"}

CATEGORIES ==
    <<"credential_sharing", "remote_access_installation", "immediate_payment",
      "qr_code_action", "untraceable_payment", "link_interaction",
      "account_access_sharing">>

IRREVERSIBLE_ACTIONS ==
    [credential_sharing |->
        <<"otp", "one time password", "one-time password", "pin", "password",
          "cvv", "cvc", "card number", "login code", "verification code",
          "security code", "mpin", "atm pin", "debit card", "credit card">>,
     remote_access_installation |->
        <<"anydesk", "teamviewer", "remote desktop", "screen sharing",
          "screen share", "remote access", "remote control", "install app",
          "download app", "apk install">>,
     immediate_payment |->
        <<"upi collect", "pay now", "transfer money", "send money",
          "payment request", "gpay", "paytm", "phonepe", "bank transfer",
          "neft", "rtgs", "imps">>,
     qr_code_action |->
        <<"scan qr", "qr code", "scan this", "barcode">>,
     untraceable_payment |->
        <<"gift card", "google play card", "amazon card", "crypto", "bitcoin",
          "usdt", "wallet address">>,
     link_interaction |->
        <<"click link", "open link", "visit link", "verify account",
          "confirm identity">>,
     account_access_sharing |->
        <<"share screen", "give access", "safe account", "secure account">>]

URGENCY_INDICATORS ==
    <<"urgent", "immediately", "right now", "asap", "today", "within minutes",
      "expire", "turant", "abhi", "jaldi", "der mat karo">>

AUTHORITY_CLAIMS ==
    <<"bank", "rbi", "sbi", "hdfc", "icici", "police", "officer", "cyber cell",
      "government", "court", "income tax">>

FEAR_TACTICS ==
    <<"blocked", "suspended", "frozen", "arrest", "fir", "court case",
      "penalty", "fraud", "illegal">>

REWARD_BAITS == <<"refund", "cashback", "reward", "prize", "lottery", "bonus">>

VERIFICATION_REQUESTS ==
    <<"verify", "confirm", "authenticate", "kyc", "update details">>

HINDI_ROMANIZED_WORDS ==
    <<"hai", "hain", "aap", "aapka", "aapko", "karo", "kijiye", "sir", "madam", "ji">>

FORMAL_HINDI_PHRASES == <<"namaste", "namaskar", "kripya">>

EXCESSIVE_RESPECT_MARKERS == <<"sir", "madam", "sirji", "madamji">>

IMPERSONATION_SIGNALS ==
    <<"calling from", "i am from", "representing", "on behalf of", "executive",
      "officer", "agent">>

INFORMATION_EXTRACTION ==
    <<"what is your", "share your", "send your", "confirm your", "pan",
      "aadhaar", "account number">>

-----------------------------------------------------------------------------
(* signals.py: extraction *)

\* for category, phrases in IRREVERSIBLE_ACTIONS.items(): for phrase in phrases:
\* the phrases found as whole words, category by category
RECURSIVE ExplicitPhrases(_, _)
ExplicitPhrases(text_lower, k) ==
    IF k > Len(CATEGORIES) THEN <<>>
    ELSE SelectSeq(IRREVERSIBLE_ACTIONS[CATEGORIES[k]],
                   LAMBDA phrase : WordSearch(text_lower, phrase))
         \o ExplicitPhrases(text_lower, k + 1)

extract_irreversible_actions(text) ==
    LET text_lower == Lower(text)
    IN  [requested_actions |->
            {c \in Range(CATEGORIES) :
                \E k \in 1..Len(IRREVERSIBLE_ACTIONS[c]) :
                    WordSearch(text_lower, IRREVERSIBLE_ACTIONS[c][k])},
         explicit_phrases |-> ExplicitPhrases(text_lower, 1)]

\* IrreversibleActionSignals.has_any; policy_gate's _Irreversible.has_any
has_any(irreversible) == irreversible.requested_actions # {}

\* variant of has_high_risk whose category set lacks account_access_sharing
has_high_risk_without_access(irreversible) ==
    IF "high_risk" \in DOMAIN irreversible
    THEN irreversible.high_risk
    ELSE irreversible.requested_actions
            \cap (HIGH_RISK_CATEGORIES \ {"account_access_sharing"}) # {}

\* IrreversibleActionSignals.has_high_risk intersects the requested actions
\* with the high-risk categories; policy_gate's _Irreversible.has_high_risk
\* returns the flag of the hard-signal dict it was built from
has_high_risk(irreversible) ==
    IF "high_risk" \in DOMAIN irreversible
    THEN irreversible.high_risk
    ELSE irreversible.requested_actions \cap HIGH_RISK_CATEGORIES # {}

extract_psychological_tactics(text) ==
    LET text_lower == Lower(text)
        urgency_matches == Matches(URGENCY_INDICATORS, text_lower)
        authority_matches == Matches(AUTHORITY_CLAIMS, text_lower)
        fear_matches == Matches(FEAR_TACTICS, text_lower)
        reward_matches == Matches(REWARD_BAITS, text_lower)
        verification_matches == Matches(VERIFICATION_REQUESTS, text_lower)
    IN  [urgency_present |-> urgency_matches # <<>>,
         urgency_phrases |-> urgency_matches,
         urgency_intensity |->
            IF urgency_matches = <<>> THEN "none"
            ELSE IF Len(urgency_matches) >= 3 THEN "high"
            ELSE IF Len(urgency_matches) = 2 THEN "medium"
            ELSE "low",
         authority_claimed |-> authority_matches # <<>>,
         authority_entities |-> authority_matches,
         fear_tactics_present |-> fear_matches # <<>>,
         fear_phrases |-> fear_matches,
         reward_baiting |-> reward_matches # <<>>,
         reward_phrases |-> reward_matches,
         verification_requested |-> verification_matches # <<>>,
         verification_phrases |-> verification_matches]

extract_linguistic_signals(text) ==
    LET text_lower == Lower(text)
        words == Split(text_lower)
        hindi_word_count ==
            Len(SelectSeq(words, LAMBDA w : w \in Range(HINDI_ROMANIZED_WORDS)))
        english_word_count ==
            Len(SelectSeq(words, LAMBDA w :
                    IsAsciiAlpha(w) /\ w \notin Range(HINDI_ROMANIZED_WORDS)))
        respect_markers == Matches(EXCESSIVE_RESPECT_MARKERS, text_lower)
        impersonation_matches == Matches(IMPERSONATION_SIGNALS, text_lower)
    IN  [language_mixing |-> hindi_word_count > 0 /\ english_word_count > 0,
         hindi_word_count |-> hindi_word_count,
         english_word_count |-> english_word_count,
         excessive_respect |-> Len(respect_markers) >= 2,
         respect_marker_count |-> Len(respect_markers),
         formal_hindi_present |->
            \E k \in 1..Len(FORMAL_HINDI_PHRASES) :
                Contains(text_lower, FORMAL_HINDI_PHRASES[k]),
         impersonation_language |-> impersonation_matches # <<>>,
         impersonation_phrases |-> impersonation_matches]

\* the tactics list of extract_contextual_signals, in the order it appends
Tactics(psychological) ==
    (IF psychological.urgency_present THEN <<"urgency">> ELSE <<>>)
    \o (IF psychological.authority_claimed THEN <<"authority">> ELSE <<>>)
    \o (IF psychological.fear_tactics_present THEN <<"fear">> ELSE <<>>)
    \o (IF psychological.reward_baiting THEN <<"reward">> ELSE <<>>)

extract_contextual_signals(text, psychological) ==
    LET text_lower == Lower(text)
        info_matches == Matches(INFORMATION_EXTRACTION, text_lower)
        tactics == Tactics(psychological)
    IN  [information_extraction_attempt |-> info_matches # <<>>,
         data_fields_requested |-> info_matches,
         multiple_urgency_layers |-> Len(tactics) >= 2,
         combined_tactics |-> IF Len(tactics) >= 2 THEN tactics ELSE <<>>,
         escalation_detected |->
            \/ Len(tactics) >= 2
            \/ /\ psychological.verification_requested
               /\ (psychological.urgency_present \/ psychological.authority_claimed)]

extract_signals(text) ==
    LET psychological == extract_psychological_tactics(text)
    IN  [irreversible |-> extract_irreversible_actions(text),
         psychological |-> psychological,
         linguistic |-> extract_linguistic_signals(text),
         contextual |-> extract_contextual_signals(text, psychological)]

\* legacy hard-signal view of a message
hard_signal_scan(text) ==
    LET s == extract_signals(text)
    IN  [irreversible_actions |-> s.irreversible.requested_actions,
         high_risk |-> has_high_risk(s.irreversible),
         urgency |-> s.psychological.urgency_present,
         authority |-> s.psychological.authority_claimed,
         fear |-> s.psychological.fear_tactics_present]

\* variant of the soft-signal view that reports excessive respect from the
\* first respect marker on
soft_signal_any_respect(text) ==
    LET s == extract_signals(text)
    IN  [language_mixing |-> s.linguistic.language_mixing,
         excessive_respect |-> s.linguistic.respect_marker_count >= 1,
         information_extraction |-> s.contextual.information_extraction_attempt,
         combined_tactics |-> s.contextual.combined_tactics]

\* legacy soft-signal view of a message
soft_signal_placeholder(text) ==
    LET s == extract_signals(text)
    IN  [language_mixing |-> s.linguistic.language_mixing,
         excessive_respect |-> s.linguistic.excessive_respect,
         information_extraction |-> s.contextual.information_extraction_attempt,
         combined_tactics |-> s.contextual.combined_tactics]

-----------------------------------------------------------------------------
(* policy.py: risk taxonomy and decision record *)

\* list(RiskBand): the members in definition order
RiskBand == <<"CRITICAL", "HIGH", "MEDIUM", "LOW", "BENIGN">>

\* variant of the index that counts from the least severe band
SeverityRank(r) == Len(RiskBand) - (CHOOSE i \in 1..Len(RiskBand) : RiskBand[i] = r)

\* list(RiskBand).index(r)
RiskIndex(r) == (CHOOSE i \in 1..Len(RiskBand) : RiskBand[i] = r) - 1

RECURSIVE Join(_, _)
\* sep.join(list)
Join(sep, list) ==
    IF list = <<>> THEN ""
    ELSE IF Len(list) = 1 THEN list[1]
    ELSE list[1] \o sep \o Join(sep, Tail(list))

UpperChar(c) ==
    IF c \in LowerLetters
    THEN CharAt(Uppers, CHOOSE i \in 1..Len(Lowers) : CharAt(Lowers, i) = c)
    ELSE c

RECURSIVE Upper(_)
\* str.upper()
Upper(s) == IF s = "" THEN "" ELSE UpperChar(CharAt(s, 1)) \o Upper(SubSeq(s, 2, Len(s)))

RECURSIVE Str(_)
\* str(n) for a natural number
Str(n) == IF n < 10 THEN CharAt(Digits, n + 1) ELSE Str(n \div 10) \o CharAt(Digits, (n % 10) + 1)

\* list[:n]
Take(list, n) == SubSeq(list, 1, IF Len(list) < n THEN Len(list) ELSE n)

\* an empty dict; dicts are functions from keys to lists of strings
EmptyDict == <<>>

\* `word in str(d)` for a dict of string lists, `word in str(l)` for a list
DictMentions(d, word) ==
    \E k \in DOMAIN d : Contains(k, word) \/ \E i \in 1..Len(d[k]) : Contains(d[k][i], word)

ListMentions(l, word) == \E i \in 1..Len(l) : Contains(l[i], word)

\* a set of names as the list Python iterates it (CATEGORIES order is taken
\* for the iteration order of the set)
AsList(set) == SelectSeq(CATEGORIES, LAMBDA c : c \in set)

\* PolicyDecision(...) with the dataclass defaults turn_count = 0 and
\* risk_trajectory = "stable"
PolicyDecision(scam_detected, risk_band, confidence, reasons, engagement_stance, recommended_actions, evidence_collected) ==
    [scam_detected |-> scam_detected,
     risk_band |-> risk_band,
     confidence |-> confidence,
     reasons |-> reasons,
     engage |-> TRUE,
     engagement_stance |-> engagement_stance,
     recommended_actions |-> recommended_actions,
     evidence_collected |-> evidence_collected,
     turn_count |-> 0,
     risk_trajectory |-> "stable"]

-----------------------------------------------------------------------------
(* policy.py: LegitimatePatterns *)

\* variant of is_legitimate_verification without the fear-tactics check
is_verification_without_urgency(s) ==
    /\ ~has_any(s.irreversible)
    /\ s.psychological.verification_requested
    /\ ~s.psychological.urgency_present

is_legitimate_verification(s) ==
    IF has_any(s.irreversible) THEN FALSE
    ELSE IF s.psychological.fear_tactics_present THEN FALSE
    ELSE IF "credential_sharing" \in s.irreversible.requested_actions THEN FALSE
    ELSE IF s.psychological.verification_requested /\ ~s.psychological.urgency_present
         THEN TRUE
    ELSE FALSE

\* variant of is_legitimate_authority without the excessive-respect check
is_authority_without_threat(s) ==
    IF s.psychological.authority_claimed /\ s.psychological.fear_tactics_present
    THEN FALSE
    ELSE IF /\ s.psychological.authority_claimed
            /\ s.psychological.urgency_present
            /\ (s.psychological.fear_tactics_present \/ s.psychological.reward_baiting)
         THEN FALSE
    ELSE TRUE

\* variant that treats every authority claim as suspicious
authority_never_legitimate(s) == ~s.psychological.authority_claimed

is_legitimate_authority(s) ==
    IF s.psychological.authority_claimed /\ s.psychological.fear_tactics_present
    THEN FALSE
    ELSE IF /\ s.psychological.authority_claimed
            /\ s.psychological.urgency_present
            /\ (s.psychological.fear_tactics_present \/ s.psychological.reward_baiting)
         THEN FALSE
    ELSE IF s.psychological.authority_claimed /\ s.linguistic.excessive_respect
         THEN FALSE
    ELSE TRUE

-----------------------------------------------------------------------------
(* policy.py: ScamDetectionPolicy.evaluate_single_turn, one decision per tier *)

CriticalDecision(s) ==
    PolicyDecision(TRUE, "CRITICAL", "definitive",
        <<"HIGH-RISK IRREVERSIBLE ACTION REQUESTED: "
          \o Join(", ", AsList(s.irreversible.requested_actions))>>,
        "ENGAGE_HONEYPOT",
        <<"DO NOT comply with any requests", "Gather scammer information",
          "Log for law enforcement">>,
        [irreversible_actions |-> AsList(s.irreversible.requested_actions),
         explicit_phrases |-> s.irreversible.explicit_phrases])

IrreversibleDecision(s) ==
    PolicyDecision(TRUE, "HIGH", "high",
        <<"Irreversible action requested: "
          \o Join(", ", AsList(s.irreversible.requested_actions))>>,
        "ENGAGE_HONEYPOT",
        <<"Do not comply", "Continue engagement to gather intelligence">>,
        [irreversible_actions |-> AsList(s.irreversible.requested_actions)])

\* variant of the whitelist tier that flags the message as a scam
FlaggedVerification(s) ==
    PolicyDecision(TRUE, "LOW", "medium",
        <<"Legitimate verification request pattern">>,
        "ALLOW", <<"Monitor for escalation">>, EmptyDict)

WhitelistDecision(s) ==
    PolicyDecision(FALSE, "LOW", "medium",
        <<"Legitimate verification request pattern">>,
        "ALLOW", <<"Monitor for escalation">>, EmptyDict)

TrinityDecision(s) ==
    PolicyDecision(TRUE, "HIGH", "high",
        <<"CLASSIC SCAM PATTERN: Authority claim + urgency + "
          \o "language mixing (Indian scam center signature)">>,
        "ENGAGE_HONEYPOT",
        <<"High-confidence scam detected",
          "Continue engagement for intelligence gathering">>,
        [pattern |-> <<"classic_indian_scam_trinity">>,
         authority_entities |-> s.psychological.authority_entities,
         urgency_intensity |-> <<s.psychological.urgency_intensity>>])

CompoundDecision(s) ==
    LET reason == "COMPOUND PRESSURE TACTICS: "
                  \o Join(", ", s.contextual.combined_tactics)
        evidence == [combined_tactics |-> s.contextual.combined_tactics]
    IN  IF s.psychological.authority_claimed
        THEN PolicyDecision(TRUE, "HIGH", "high",
                <<reason, "Combined with authority claim - high risk">>,
                "ENGAGE_HONEYPOT", <<>>, evidence)
        ELSE PolicyDecision(TRUE, "MEDIUM", "medium", <<reason>>,
                "ENGAGE_DEFENSIVE", <<>>, evidence)

ThreatDecision(s) ==
    PolicyDecision(TRUE, "HIGH", "high",
        <<"THREAT-BASED SCAM: Authority claim with fear tactics",
          "Fear phrases: " \o Join(", ", Take(s.psychological.fear_phrases, 3))>>,
        "ENGAGE_HONEYPOT", <<>>,
        [authority_entities |-> s.psychological.authority_entities,
         fear_phrases |-> s.psychological.fear_phrases])

ImpersonationDecision(s) ==
    PolicyDecision(TRUE, "HIGH", "medium",
        <<"IMPERSONATION + DATA EXTRACTION: Claiming to be from organization "
          \o "while requesting sensitive info">>,
        "ENGAGE_DEFENSIVE", <<>>,
        [impersonation_phrases |-> s.linguistic.impersonation_phrases,
         data_fields_requested |-> s.contextual.data_fields_requested])

SuspiciousAuthorityDecision(s) ==
    LET claim == "Suspicious authority claim: "
                 \o Join(", ", Take(s.psychological.authority_entities, 2))
    IN  PolicyDecision(TRUE, "MEDIUM", "medium",
            IF s.linguistic.excessive_respect
            THEN <<claim, "Excessive formality detected ("
                          \o Str(s.linguistic.respect_marker_count)
                          \o " respect markers)">>
            ELSE <<claim>>,
            "ENGAGE_DEFENSIVE",
            <<"Request verification details", "Monitor for escalation">>,
            IF s.linguistic.excessive_respect
            THEN [respect_marker_count |-> <<Str(s.linguistic.respect_marker_count)>>]
            ELSE EmptyDict)

UrgencyDecision(s) ==
    PolicyDecision(FALSE, "MEDIUM", "low",
        <<Upper(s.psychological.urgency_intensity) \o " URGENCY detected: "
          \o Str(Len(s.psychological.urgency_phrases)) \o " urgency indicators">>,
        "ENGAGE_DEFENSIVE", <<"Monitor for additional signals">>,
        [urgency_phrases |-> s.psychological.urgency_phrases])

ExtractionDecision(s) ==
    PolicyDecision(FALSE, "MEDIUM", "low",
        <<"Information extraction attempt detected">>,
        "ENGAGE_DEFENSIVE", <<>>,
        [data_fields_requested |-> s.contextual.data_fields_requested])

\* the weak_signals list of tier 4
weak_signals(s) ==
    (IF s.psychological.urgency_present THEN <<"low urgency">> ELSE <<>>)
    \o (IF s.psychological.reward_baiting THEN <<"reward baiting">> ELSE <<>>)
    \o (IF s.linguistic.language_mixing THEN <<"language mixing">> ELSE <<>>)
    \o (IF s.linguistic.excessive_respect THEN <<"excessive formality">> ELSE <<>>)

WeakDecision(s) ==
    PolicyDecision(FALSE, "LOW", "low",
        <<"Weak signals detected: " \o Join(", ", weak_signals(s))>>,
        "ALLOW", <<"Continue monitoring">>, EmptyDict)

BenignDecision(s) ==
    PolicyDecision(FALSE, "BENIGN", "high", <<"No scam indicators detected">>,
        "ALLOW", <<>>, EmptyDict)

evaluate_single_turn(s) ==
    IF has_high_risk(s.irreversible) THEN CriticalDecision(s)
    ELSE IF has_any(s.irreversible) THEN IrreversibleDecision(s)
    ELSE IF is_legitimate_verification(s) THEN WhitelistDecision(s)
    ELSE IF /\ s.psychological.authority_claimed
            /\ s.psychological.urgency_present
            /\ s.linguistic.language_mixing
         THEN TrinityDecision(s)
    ELSE IF s.contextual.multiple_urgency_layers THEN CompoundDecision(s)
    ELSE IF s.psychological.authority_claimed /\ s.psychological.fear_tactics_present
         THEN ThreatDecision(s)
    ELSE IF /\ s.contextual.information_extraction_attempt
            /\ s.linguistic.impersonation_language
         THEN ImpersonationDecision(s)
    ELSE IF s.psychological.authority_claimed /\ ~is_legitimate_authority(s)
         THEN SuspiciousAuthorityDecision(s)
    ELSE IF /\ s.psychological.urgency_present
            /\ s.psychological.urgency_intensity \in {"high", "medium"}
         THEN UrgencyDecision(s)
    ELSE IF s.contextual.information_extraction_attempt THEN ExtractionDecision(s)
    ELSE IF weak_signals(s) # <<>> THEN WeakDecision(s)
    ELSE BenignDecision(s)

-----------------------------------------------------------------------------
(* policy.py: ScamDetectionPolicy.evaluate_conversation, evaluate_message *)

\* [d.risk_band for d in conversation_history]
previous_risks(history) == [i \in 1..Len(history) |-> history[i].risk_band]

\* max(previous_risks, key=lambda r: list(RiskBand).index(r)): the first
\* element whose index in list(RiskBand) is largest
highest_previous(history) ==
    LET risks == previous_risks(history)
        first == CHOOSE i \in 1..Len(risks) :
                    /\ \A j \in 1..Len(risks) : RiskIndex(risks[j]) <= RiskIndex(risks[i])
                    /\ \A j \in 1..(i - 1) : RiskIndex(risks[j]) < RiskIndex(risks[i])
    IN  risks[first]

\* "ESCALATION RULE": the band, reasons and trajectory after lines 512-519
RiskFloor(d, history) ==
    IF RiskIndex(d.risk_band) < RiskIndex(highest_previous(history))
    THEN [d EXCEPT !.risk_band = highest_previous(history),
                   !.reasons = <<"RISK FLOOR: Previous conversation reached "
                                 \o highest_previous(history)
                                 \o " - risk cannot decrease">> \o @,
                   !.risk_trajectory = "floor_applied"]
    ELSE d

\* "Detect escalation": lines 522-531
DetectEscalation(d, history) ==
    LET previous_decision == history[Len(history)]
    IN  IF RiskIndex(d.risk_band) > RiskIndex(previous_decision.risk_band)
        THEN [d EXCEPT !.risk_trajectory = "escalating",
                       !.reasons = <<"ESCALATION DETECTED: "
                                     \o previous_decision.risk_band \o " -> "
                                     \o d.risk_band>> \o @]
        ELSE [d EXCEPT !.risk_trajectory = "stable"]

\* sum(1 for d in history if "authority" in str(d.evidence_collected))
authority_count(history) ==
    Cardinality({i \in 1..Len(history) :
                    DictMentions(history[i].evidence_collected, "authority")})

\* sum(1 for d in history if "urgency" in str(d.reasons).lower())
urgency_count(history) ==
    Cardinality({i \in 1..Len(history) :
                    ListMentions([k \in 1..Len(history[i].reasons) |->
                                    Lower(history[i].reasons[k])], "urgency")})

\* "Persistence analysis": lines 534-556
Persistence(d, current_signals, history) ==
    IF Len(history) >= 2
    THEN LET a == IF /\ authority_count(history) >= 2
                     /\ current_signals.psychological.authority_claimed
                  THEN [d EXCEPT !.reasons = @ \o
                                    <<"PERSISTENT AUTHORITY CLAIMS: "
                                      \o Str(authority_count(history) + 1) \o " turns">>,
                                 !.confidence = IF @ = "medium" THEN "high" ELSE @]
                  ELSE d
         IN  IF /\ urgency_count(history) >= 2
                /\ current_signals.psychological.urgency_present
             THEN [a EXCEPT !.reasons = @ \o
                                <<"PERSISTENT URGENCY: "
                                  \o Str(urgency_count(history) + 1) \o " turns">>]
             ELSE a
    ELSE d

\* variant of the final override that keeps the current turn's own verdict
KeepVerdict(d, history) == d

\* "Final scam detection override": lines 558-561
StickyScam(d, history) ==
    IF \E i \in 1..Len(history) : history[i].scam_detected
    THEN [d EXCEPT !.scam_detected = TRUE]
    ELSE d

evaluate_conversation(current_signals, history) ==
    LET current_decision ==
            [evaluate_single_turn(current_signals) EXCEPT !.turn_count = Len(history) + 1]
    IN  IF history = <<>>
        THEN [current_decision EXCEPT !.risk_trajectory = "initial"]
        ELSE StickyScam(
                Persistence(
                    DetectEscalation(RiskFloor(current_decision, history), history),
                    current_signals, history),
                history)

\* conversation_history = None is modelled by the empty list: both are falsy
evaluate_message(s, history) ==
    IF history # <<>>
    THEN evaluate_conversation(s, history)
    ELSE evaluate_single_turn(s)

-----------------------------------------------------------------------------
(* policy.py: policy_gate, the legacy entry point used by main.py *)

\* dict.get(key, default)
Get(d, key, default) == IF key \in DOMAIN d THEN d[key] ELSE default

\* the adapter classes _Irreversible, _Psychological, _Linguistic, _Contextual
\* and _Signals built from the hard and soft dicts
AdapterSignals(hard, soft) ==
    [irreversible |->
        [requested_actions |-> Get(hard, "irreversible_actions", {}),
         explicit_phrases |-> <<>>,
         high_risk |-> Get(hard, "high_risk", FALSE)],
     psychological |->
        [urgency_present |-> Get(hard, "urgency", FALSE),
         authority_claimed |-> Get(hard, "authority", FALSE),
         fear_tactics_present |-> Get(hard, "fear", FALSE),
         reward_baiting |-> FALSE,
         verification_requested |-> FALSE,
         urgency_intensity |-> IF Get(hard, "urgency", FALSE) THEN "high" ELSE "none",
         urgency_phrases |-> IF Get(hard, "urgency", FALSE) THEN <<"urgency">> ELSE <<>>,
         authority_entities |-> <<>>,
         fear_phrases |-> <<>>],
     linguistic |->
        [language_mixing |-> Get(soft, "language_mixing", FALSE),
         excessive_respect |-> Get(soft, "excessive_respect", FALSE),
         respect_marker_count |-> 0,
         impersonation_language |-> FALSE,
         impersonation_phrases |-> <<>>],
     contextual |->
        [information_extraction_attempt |-> Get(soft, "information_extraction", FALSE),
         combined_tactics |-> Get(soft, "combined_tactics", <<>>),
         multiple_urgency_layers |-> Len(Get(soft, "combined_tactics", <<>>)) >= 2,
         data_fields_requested |-> <<>>]]

\* decision = evaluate_message(signals): no conversation history is passed
policy_gate(hard, soft, validation) ==
    LET d == evaluate_message(AdapterSignals(hard, soft), <<>>)
    IN  [scam |-> d.scam_detected,
         risk |-> d.risk_band,
         confidence |-> d.confidence,
         risk_band |-> d.risk_band,
         reasons |-> d.reasons,
         validation |-> validation]

-----------------------------------------------------------------------------
(* memory.py *)

MAX_HISTORY == 6

\* CONVERSATIONS.get(conversation_id, [])
get_history(store, conversation_id) ==
    IF conversation_id \in DOMAIN store THEN store[conversation_id] ELSE <<>>

\* the entry append_message builds; main.py never passes signals
Entry(role, message) == [role |-> role, message |-> message, signals |-> EmptyDict]

\* the list object after CONVERSATIONS.setdefault(id, []).append(entry): the
\* append is in place, so a caller holding the list sees this value
AppendedList(store, conversation_id, role, message) ==
    Append(get_history(store, conversation_id), Entry(role, message))

\* variant of the trim that keeps the oldest MAX_HISTORY entries
TrimOldest(list) ==
    IF Len(list) > MAX_HISTORY THEN SubSeq(list, 1, MAX_HISTORY) ELSE list

\* list[-MAX_HISTORY:] when the list is longer than MAX_HISTORY
Trim(list) ==
    IF Len(list) > MAX_HISTORY
    THEN SubSeq(list, Len(list) - MAX_HISTORY + 1, Len(list))
    ELSE list

\* the store after append_message(conversation_id, role, message)
\* variant of the append that writes the entry to every stored conversation
append_message_everywhere(store, conversation_id, role, message) ==
    [c \in DOMAIN store \cup {conversation_id} |->
        Trim(Append(get_history(store, c), Entry(role, message)))]

\* variant of the append that stores the new entry in place of the list
append_message_overwriting(store, conversation_id, role, message) ==
    [c \in DOMAIN store \cup {conversation_id} |->
        IF c = conversation_id THEN <<Entry(role, message)>> ELSE store[c]]

append_message(store, conversation_id, role, message) ==
    [c \in DOMAIN store \cup {conversation_id} |->
        IF c = conversation_id
        THEN Trim(AppendedList(store, conversation_id, role, message))
        ELSE store[c]]

\* append_message called with a signal snapshot: `signals or {}`
append_snapshot(store, conversation_id, role, message, snapshot) ==
    [c \in DOMAIN store \cup {conversation_id} |->
        IF c = conversation_id
        THEN Trim(Append(get_history(store, conversation_id),
                         [role |-> role, message |-> message, signals |-> snapshot]))
        ELSE store[c]]

\* isinstance(urgency, (int, float)); signals.get gives None for a missing key
IsNumeric(snapshot) == "urgency_score" \in DOMAIN snapshot /\ snapshot["urgency_score"] \in Int

\* the urgency_score values of the entries that carry a numeric one, in order
urgency_scores(history) ==
    LET RECURSIVE Collect(_)
        Collect(i) ==
            IF i > Len(history) THEN <<>>
            ELSE (IF IsNumeric(history[i].signals)
                  THEN <<history[i].signals["urgency_score"]>> ELSE <<>>)
                 \o Collect(i + 1)
    IN  Collect(1)

\* the indices (from 0) of the entries with a non-empty irreversible_actions
irreversible_turns(history) ==
    LET RECURSIVE Collect(_)
        Collect(i) ==
            IF i > Len(history) THEN <<>>
            ELSE (IF Get(history[i].signals, "irreversible_actions", <<>>) # <<>>
                  THEN <<i - 1>> ELSE <<>>)
                 \o Collect(i + 1)
    IN  Collect(1)

\* condition 1: sustained urgency increase
urgency_escalating(scores) ==
    /\ Len(scores) >= 3
    /\ scores[Len(scores)] > scores[Len(scores) - 1]
    /\ scores[Len(scores) - 1] > scores[1]

\* variant of condition 2 that accepts an irreversible action at any turn
irreversible_seen(turns) == Len(turns) > 0

\* condition 2: irreversible introduced after the start
irreversible_late(turns) == Len(turns) > 0 /\ turns[1] > 0

detect_escalation(store, conversation_id) ==
    LET history == get_history(store, conversation_id)
    IN  IF Len(history) < 2
        THEN [escalation |-> FALSE, reason |-> "Insufficient conversation history"]
        ELSE IF /\ urgency_escalating(urgency_scores(history))
                /\ irreversible_late(irreversible_turns(history))
        THEN [escalation |-> TRUE,
              reason |-> "Urgency increased across turns and irreversible action introduced later",
              urgency_trend |-> urgency_scores(history),
              irreversible_first_seen_at_turn |-> irreversible_turns(history)[1]]
        ELSE [escalation |-> FALSE, reason |-> "No sustained escalation pattern detected"]

-----------------------------------------------------------------------------
(* agent.py: language and intent detection *)

\* Stand-in for the code points U+0900..U+097F: module text is ASCII, so a
\* Devanagari character of a message is written as this character.
Devanagari == {"^"}

CountChars(text, class) == Cardinality({i \in 1..Len(text) : CharAt(text, i) \in class})

RECURSIVE WordsFrom(_, _, _)
\* re.findall(r'\b\w+\b', s): the maximal runs of word characters
WordsFrom(s, i, cur) ==
    IF i > Len(s)
    THEN IF cur = "" THEN <<>> ELSE <<cur>>
    ELSE IF CharAt(s, i) \in WordChars \cup Devanagari
         THEN WordsFrom(s, i + 1, cur \o CharAt(s, i))
         ELSE IF cur = "" THEN WordsFrom(s, i + 1, "")
              ELSE <<cur>> \o WordsFrom(s, i + 1, "")

hinglish_words ==
    <<"bhai", "yaar", "kya", "hai", "haan", "nahi", "theek", "accha",
      "arre", "beta", "ji", "aapka", "mera", "karo", "bolo", "suno",
      "abhi", "phir", "kab", "kahan", "kyun", "kaise", "aap", "aapne",
      "mujhe", "mere", "tumhara", "humara", "wala", "wali", "kar", "ho">>

\* hindi_ratio = hindi_chars / total_chars compared with 0.8 and 0.1, in
\* integers: h/t > 0.8 iff 5h > 4t, h/t > 0.1 iff 10h > t, h/t < 0.8 iff 5h < 4t
_detect_language(text) ==
    LET text_lower == Lower(text)
        hindi_chars == CountChars(text, Devanagari)
        total_chars == CountChars(text, AsciiLetters \cup Devanagari)
        words == WordsFrom(text_lower, 1, "")
        hinglish_count ==
            Len(SelectSeq(words, LAMBDA w : w \in Range(hinglish_words)))
    IN  IF total_chars = 0 THEN "english"
        ELSE IF 5 * hindi_chars > 4 * total_chars THEN "hindi"
        ELSE IF \/ hinglish_count > 0
                \/ (10 * hindi_chars > total_chars /\ 5 * hindi_chars < 4 * total_chars)
             THEN "hinglish"
        ELSE "english"

\* any(word in msg_lower for word in list)
AnyIn(list, text) == \E k \in 1..Len(list) : Contains(text, list[k])

\* The keyword lists of _detect_intent; their Devanagari keywords are left
\* out, since no message of the model spells Devanagari words.
CredentialWords ==
    <<"otp", "pin", "password", "cvv", "code", "verify", "verification",
      "passcode", "security code">>
MoneyWords ==
    <<"upi", "payment", "refund", "amount", "rs", "money", "rupees", "paytm",
      "phonepe", "gpay", "transfer", "account">>
AuthorityWords ==
    <<"bank", "police", "officer", "department", "rbi", "government",
      "official", "cybercrime">>
DeviceWords ==
    <<"install", "download", "anydesk", "teamviewer", "remote", "app", "link", "click">>
PanicWords ==
    <<"urgent", "block", "suspend", "arrest", "immediately", "now", "hurry",
      "quick", "emergency">>
GreetingWords ==
    <<"hello", "hi", "good morning", "good afternoon", "good evening",
      "this is", "i am calling from">>

_detect_intent(msg) ==
    LET msg_lower == Lower(msg)
    IN  IF AnyIn(CredentialWords, msg_lower) THEN "credential_trap"
        ELSE IF AnyIn(MoneyWords, msg_lower) THEN "money_trap"
        ELSE IF AnyIn(AuthorityWords, msg_lower) THEN "authority_trap"
        ELSE IF AnyIn(DeviceWords, msg_lower) THEN "device_trap"
        ELSE IF AnyIn(PanicWords, msg_lower) THEN "panic_trap"
        ELSE IF AnyIn(GreetingWords, msg_lower) THEN "greeting"
        ELSE "unknown"

\* variant of the strategy that scripts the first reply only
_response_strategy_first_only(intent, agent_count) ==
    IF agent_count < 1 THEN "manual" ELSE "llm"

_response_strategy(intent, agent_count) == IF agent_count < 2 THEN "manual" ELSE "llm"

-----------------------------------------------------------------------------
(* agent.py: scripted replies, LLM replies, generate_agent_reply *)

\* The hindi lists are Devanagari text in the source; here each is a distinct
\* stand-in string that starts with the Devanagari stand-in character.
MANUAL_RESPONSES ==
    [credential_trap |->
        [english |-> <<"I didn't receive any code yet",
                       "Which code are you referring to?",
                       "Can you send it again?">>,
         hinglish |-> <<"Mujhe koi code nahi aaya abhi tak",
                        "Kaun sa code ki baat kar rahe ho?",
                        "Dobara bhej sakte ho kya?">>,
         hindi |-> <<"^credential_trap 0", "^credential_trap 1", "^credential_trap 2">>],
     money_trap |->
        [english |-> <<"Which amount exactly?",
                       "I have two accounts, which one?",
                       "How much money are we talking about?">>,
         hinglish |-> <<"Kitna amount hai exactly?",
                        "Mere do accounts hain, kaun sa?",
                        "Kitne paise ki baat ho rahi hai?">>,
         hindi |-> <<"^money_trap 0", "^money_trap 1", "^money_trap 2">>],
     authority_trap |->
        [english |-> <<"Which branch are you calling from?",
                       "Can you share the official number?",
                       "What is your employee ID?">>,
         hinglish |-> <<"Aap kaun se branch se call kar rahe ho?",
                        "Official number share kar sakte ho?",
                        "Aapki employee ID kya hai?">>,
         hindi |-> <<"^authority_trap 0", "^authority_trap 1", "^authority_trap 2">>],
     device_trap |->
        [english |-> <<"My phone storage is full",
                       "Is it really necessary?",
                       "Can we do this without downloading?">>,
         hinglish |-> <<"Mere phone ki storage full hai",
                        "Ye zaruri hai kya really?",
                        "Bina download kiye ho sakta hai?">>,
         hindi |-> <<"^device_trap 0", "^device_trap 1", "^device_trap 2">>],
     panic_trap |->
        [english |-> <<"Please explain slowly",
                       "What happened exactly?",
                       "I'm getting confused, start from beginning">>,
         hinglish |-> <<"Dhire dhire samjhao please",
                        "Hua kya exactly?",
                        "Main confuse ho raha hoon, shuru se batao">>,
         hindi |-> <<"^panic_trap 0", "^panic_trap 1", "^panic_trap 2">>],
     greeting |->
        [english |-> <<"Hello, who is this?", "Yes, how can I help?">>,
         hinglish |-> <<"Hello, kaun bol raha hai?",
                        "Haan, kaise madad kar sakta hoon?">>,
         hindi |-> <<"^greeting 0", "^greeting 1">>],
     unknown |->
        [english |-> <<"I didn't understand", "Can you explain again?",
                       "What do you mean?">>,
         hinglish |-> <<"Main samjha nahi", "Phir se samjha sakte ho?",
                        "Matlab kya hai?">>,
         hindi |-> <<"^unknown 0", "^unknown 1", "^unknown 2">>]]

\* the value _get_groq_client returns and memoizes: a memoized handle is
\* returned as is; otherwise the environment is read, a missing key gives None
\* and leaves the memo alone, and Groq(api_key=...) either yields a handle,
\* which is memoized, or raises (init_ok = FALSE), which gives None
_get_groq_client(memo, api_key, init_ok) ==
    IF memo # None THEN memo
    ELSE IF ~api_key THEN None
    ELSE IF init_ok THEN "Groq" ELSE None

\* what the LLM call can produce: an exception, or the reply text
LLMError == "<exception>"
LLMOutcomes == {LLMError, "", " ", "As an AI I cannot help", " Arre beta, kaun bol raha hai? "}

\* the last phrase is Devanagari text around "AI" in the source
forbidden_phrases ==
    <<"i am an ai", "i'm an ai", "i am a bot", "i'm a bot", "as an ai",
      "as a language model", "^^ ^^ ai ^^">>

_get_fallback_response(language) ==
    IF language = "english" THEN "Sorry, I didn't catch that. Can you repeat?"
    ELSE IF language = "hinglish" THEN "Thoda network issue hai, dobara boliye"
    ELSE IF language = "hindi" THEN "^fallback network"
    ELSE "Can you say that again?"

\* the reply when no client is available (lines 283-290)
NoClientFallback(language) ==
    IF language = "english" THEN "Sorry, can you repeat that?"
    ELSE IF language = "hinglish" THEN "Thoda repeat kariye please"
    ELSE IF language = "hindi" THEN "^fallback repeat"
    ELSE "Can you say that again?"

\* variant of the LLM reply without the self-identification filter
_groq_reply_unfiltered(history, language, client, outcome) ==
    IF client = None THEN NoClientFallback(language)
    ELSE IF outcome = LLMError THEN _get_fallback_response(language)
    ELSE IF Strip(outcome) = "" THEN _get_fallback_response(language)
    ELSE Strip(outcome)

\* `outcome` is what client.chat.completions.create does for this call
_groq_generate_reply(history, language, client, outcome) ==
    IF client = None THEN NoClientFallback(language)
    ELSE IF outcome = LLMError THEN _get_fallback_response(language)
    ELSE LET response_text == Strip(outcome)
         IN  IF response_text = "" THEN _get_fallback_response(language)
             ELSE IF AnyIn(forbidden_phrases, Lower(response_text))
                  THEN _get_fallback_response(language)
             ELSE response_text

\* the stripped message of the latest scammer entry, None when there is none
last_scammer_msg(history) ==
    IF \E i \in 1..Len(history) : history[i].role = "scammer"
    THEN LET last == CHOOSE i \in 1..Len(history) :
                        /\ history[i].role = "scammer"
                        /\ \A j \in (i + 1)..Len(history) : history[j].role # "scammer"
         IN  Strip(history[last].message)
    ELSE None

\* sum(1 for m in history if m.get("role") == "agent")
agent_count(history) == Cardinality({i \in 1..Len(history) : history[i].role = "agent"})

-----------------------------------------------------------------------------
(* extractor.py *)

RECURSIVE RunEnd(_, _, _)
\* the last index of the run of `class` characters starting at i (i - 1 if none)
RunEnd(text, i, class) ==
    IF i <= Len(text) /\ CharAt(text, i) \in class
    THEN RunEnd(text, i + 1, class)
    ELSE i - 1

HandleChars == AsciiLetters \cup CharsOf(Digits) \cup {".", "-", "_"}

RECURSIVE FindUpi(_, _)
\* re.findall(r"[a-zA-Z0-9.\-_]{2,}@[a-zA-Z]{2,}", text), scanning from i
FindUpi(text, i) ==
    IF i > Len(text) THEN <<>>
    ELSE LET e == RunEnd(text, i, HandleChars)
             d == RunEnd(text, e + 2, AsciiLetters)
         IN  IF /\ e - i + 1 >= 2
                /\ e + 1 <= Len(text)
                /\ CharAt(text, e + 1) = "@"
                /\ d - (e + 2) + 1 >= 2
             THEN <<SubSeq(text, i, d)>> \o FindUpi(text, d + 1)
             ELSE FindUpi(text, i + 1)

\* whether p occurs in text at index i
StartsWithAt(text, i, p) ==
    i + Len(p) - 1 <= Len(text) /\ SubSeq(text, i, i + Len(p) - 1) = p

RECURSIVE FindUrls(_, _)
\* re.findall(r"https?://\S+", text), scanning from i
FindUrls(text, i) ==
    IF i > Len(text) THEN <<>>
    ELSE LET pre == IF StartsWithAt(text, i, "http://") THEN 7
                    ELSE IF StartsWithAt(text, i, "https://") THEN 8
                    ELSE 0
             NonSpace == {CharAt(text, k) : k \in 1..Len(text)} \ Whitespace
             e == RunEnd(text, i + pre, NonSpace)
         IN  IF pre > 0 /\ e >= i + pre
             THEN <<SubSeq(text, i, e)>> \o FindUrls(text, e + 1)
             ELSE FindUrls(text, i + 1)

extract_intel(text) == [upi_id |-> FindUpi(text, 1), urls |-> FindUrls(text, 1)]

-----------------------------------------------------------------------------
(* main.py: honeypot_endpoint_logic *)

\* Step 4: validate_authority_claim takes (claimed_entity, message) and is
\* called with one argument, so the call raises TypeError and the except
\* branch sets validation = {}
AuthorityValidation(message) == EmptyDict

\* variant of the envelope that replaces a missing reply by the canned one
EnvelopeWithFallback(gate, agent_reply, intel, turn, history, hard, soft, validation) ==
    [scam_detected |-> Get(gate, "scam", FALSE),
     risk_score |-> Get(gate, "risk", "UNKNOWN"),
     decision_confidence |-> Get(gate, "confidence", "low"),
     agent_reply |->
        IF agent_reply = None THEN "I didn't understand. Can you repeat?" ELSE agent_reply,
     extracted_intelligence |-> intel,
     engagement_metrics |->
        [turn |-> IF turn = 0 THEN 1 ELSE turn,
         history_length |-> Len(history)],
     explanation |->
        [risk_band |-> Get(gate, "risk_band", "unknown"),
         reasons |-> Get(gate, "reasons", <<>>),
         hard_signals |-> hard,
         soft_signals |-> soft,
         validation |-> validation]]

\* Step 8: the response envelope
Envelope(gate, agent_reply, intel, turn, history, hard, soft, validation) ==
    [scam_detected |-> Get(gate, "scam", FALSE),
     risk_score |-> Get(gate, "risk", "UNKNOWN"),
     decision_confidence |-> Get(gate, "confidence", "low"),
     agent_reply |-> agent_reply,
     extracted_intelligence |-> intel,
     engagement_metrics |->
        [turn |-> IF turn = 0 THEN 1 ELSE turn,
         history_length |-> Len(history)],
     explanation |->
        [risk_band |-> Get(gate, "risk_band", "unknown"),
         reasons |-> Get(gate, "reasons", <<>>),
         hard_signals |-> hard,
         soft_signals |-> soft,
         validation |-> validation]]

\* Bounds of the pipeline model
MaxRequests == 2

ConversationIds == {"A", "B"}
ExecutionModes == {"live", "shadow"}
\* req.turn; 0 stands for the falsy values (None, 0, "")
Turns == {0, 2}
Messages ==
    {"Hello sir, I am calling from State Bank",
     "Hello sir I am calling from State Bank",
     "We need your OTP to verify account",
     "Thank you",
     "Please verify your email at your convenience",
     "Namaste ji, main RBI se urgent call kar raha hoon, account block ho jayega"}

\* the scammer messages of the histories generate_agent_reply is applied to
\* directly: empty, whitespace-only, english, hinglish and Devanagari text
ReplyMessages ==
    {"", "  ", "Thank you",
     "Namaste ji, main RBI se urgent call kar raha hoon, account block ho jayega",
     "^^^^ ^^"}

\* _detect_language and _detect_intent are pure functions of the latest
\* scammer message, tabulated over the stripped messages
Analysed ==
    [msg \in {Strip(message) : message \in Messages \cup ReplyMessages} |->
        [language |-> _detect_language(msg), intent |-> _detect_intent(msg)]]

\* whether generate_agent_reply reaches the LLM branch on this history
UsesLLM(history) ==
    /\ history # <<>>
    /\ last_scammer_msg(history) \notin {None, ""}
    /\ _response_strategy(Analysed[last_scammer_msg(history)].intent,
                          agent_count(history)) = "llm"

generate_agent_reply(history, client, outcome) ==
    IF history = <<>> THEN "Hello?"
    ELSE IF last_scammer_msg(history) \in {None, ""} THEN "Yes, I'm listening?"
    ELSE LET msg == last_scammer_msg(history)
             language == Analysed[msg].language
             intent == Analysed[msg].intent
             strategy == _response_strategy(intent, agent_count(history))
             lang_responses == MANUAL_RESPONSES[intent][language]
         IN  IF strategy = "manual"
             THEN lang_responses[(agent_count(history) % Len(lang_responses)) + 1]
             ELSE _groq_generate_reply(history, language, client, outcome)

\* Steps 3, 5 and 7 are pure functions of the message: hard_signal_scan,
\* soft_signal_placeholder, policy_gate on their results and extract_intel,
\* tabulated over the messages
Scanned ==
    [message \in Messages |->
        [hard |-> hard_signal_scan(message),
         soft |-> soft_signal_placeholder(message),
         gate |-> policy_gate(hard_signal_scan(message),
                              soft_signal_placeholder(message),
                              AuthorityValidation(message)),
         intel |-> extract_intel(message)]]

\* One request handled from Step 1 to Step 8.  Step 2 re-reads the history
\* after the append; in live mode Step 6 re-reads it, generates the reply and
\* appends it in place to the list `history` refers to, which the response's
\* history_length then measures.
honeypot_endpoint_logic(conversation_id, turn, message, execution_mode) ==
    LET store1 == append_message(CONVERSATIONS, conversation_id, "scammer", message)
        history1 == get_history(store1, conversation_id)
        hard == Scanned[message].hard
        soft == Scanned[message].soft
        validation == AuthorityValidation(message)
        gate == Scanned[message].gate
        intel == Scanned[message].intel
        req == [conversation_id |-> conversation_id, turn |-> turn,
                message |-> message, execution_mode |-> execution_mode]
    IN  /\ request' = req
        /\ prev_response' = [prev_response EXCEPT ![conversation_id] = response[conversation_id]]
        /\ IF execution_mode = "live"
           THEN \E init_ok \in (IF UsesLLM(history1) THEN BOOLEAN ELSE {TRUE}),
                   outcome \in (IF UsesLLM(history1) THEN LLMOutcomes ELSE {LLMError}) :
                    LET client == _get_groq_client(groq_client, GROQ_API_KEY, init_ok)
                        agent_reply == generate_agent_reply(history1, client, outcome)
                        history2 == AppendedList(store1, conversation_id, "agent", agent_reply)
                    IN  /\ CONVERSATIONS' =
                                append_message(store1, conversation_id, "agent", agent_reply)
                        /\ groq_client' = IF UsesLLM(history1) THEN client ELSE groq_client
                        /\ response' = [response EXCEPT ![conversation_id] =
                                Envelope(gate, agent_reply, intel, turn, history2,
                                         hard, soft, validation)]
           ELSE /\ CONVERSATIONS' = store1
                /\ groq_client' = groq_client
                /\ response' = [response EXCEPT ![conversation_id] =
                        Envelope(gate, None, intel, turn, history1, hard, soft, validation)]

\* the steps of honeypot_endpoint_logic whose try block can be made to fail:
\* Step 1 get_history, Step 2 append_message, Step 3 signal extraction,
\* Step 5 policy_gate, Step 6 generate_agent_reply, Step 7 extract_intel.
\* Step 4 needs no injection: it fails on every request (AuthorityValidation).
Steps == {"history", "append", "signals", "policy", "reply", "intel"}

\* Step 5 after a failed Step 3: policy_gate(hard={}, soft={}, validation={})
EmptyGate == policy_gate(EmptyDict, EmptyDict, EmptyDict)

\* variant of the policy fallback that reports the error like the outermost
\* handler does
PolicyErrorAsCritical ==
    [scam |-> FALSE, risk |-> "ERROR", confidence |-> "none",
     risk_band |-> "unknown", reasons |-> <<"Policy error: ">>]

\* Step 5, except branch: the decision when policy_gate raises; the text of
\* the exception after "Policy error: " is left out
PolicyErrorDecision ==
    [scam |-> FALSE, risk |-> "UNKNOWN", confidence |-> "low",
     risk_band |-> "unknown", reasons |-> <<"Policy error: ">>]

\* One request handled while the first call of every step in `failed` raises.
\* A failed Step 1 leaves history = []; a failed Step 2 stores nothing and
\* keeps the history of Step 1; a failed Step 3 leaves hard = soft = {}; a
\* failed Step 6 raises in generate_agent_reply after the history was read
\* again, stores no agent entry and replies with the canned sentence; a failed
\* Step 7 leaves intel = {}.  When Step 6 reads [] for a conversation that is
\* not stored, append_message creates a new list and `history` stays [].
honeypot_endpoint_logic_failing(conversation_id, turn, message, execution_mode, failed) ==
    LET history0 ==
            IF "history" \in failed THEN <<>>
            ELSE get_history(CONVERSATIONS, conversation_id)
        store1 ==
            IF "append" \in failed THEN CONVERSATIONS
            ELSE append_message(CONVERSATIONS, conversation_id, "scammer", message)
        history1 ==
            IF "append" \in failed THEN history0
            ELSE get_history(store1, conversation_id)
        hard == IF "signals" \in failed THEN EmptyDict ELSE Scanned[message].hard
        soft == IF "signals" \in failed THEN EmptyDict ELSE Scanned[message].soft
        validation == AuthorityValidation(message)
        gate ==
            IF "policy" \in failed THEN PolicyErrorDecision
            ELSE IF "signals" \in failed THEN EmptyGate
            ELSE Scanned[message].gate
        intel == IF "intel" \in failed THEN EmptyDict ELSE Scanned[message].intel
        history6 == get_history(store1, conversation_id)
        req == [conversation_id |-> conversation_id, turn |-> turn,
                message |-> message, execution_mode |-> execution_mode]
    IN  /\ request' = req
        /\ IF execution_mode = "live" /\ "reply" \notin failed
           THEN \E init_ok \in (IF UsesLLM(history6) THEN BOOLEAN ELSE {TRUE}),
                   outcome \in (IF UsesLLM(history6) THEN LLMOutcomes ELSE {LLMError}) :
                    LET client == _get_groq_client(groq_client, GROQ_API_KEY, init_ok)
                        agent_reply == generate_agent_reply(history6, client, outcome)
                        history7 ==
                            IF conversation_id \in DOMAIN store1
                            THEN AppendedList(store1, conversation_id, "agent", agent_reply)
                            ELSE <<>>
                    IN  /\ CONVERSATIONS' =
                                append_message(store1, conversation_id, "agent", agent_reply)
                        /\ groq_client' = IF UsesLLM(history6) THEN client ELSE groq_client
                        /\ response' = [response EXCEPT ![conversation_id] =
                                Envelope(gate, agent_reply, intel, turn, history7,
                                         hard, soft, validation)]
           ELSE IF execution_mode = "live"
           THEN /\ CONVERSATIONS' = store1
                /\ groq_client' = groq_client
                /\ response' = [response EXCEPT ![conversation_id] =
                        Envelope(gate, "I didn't understand. Can you repeat?", intel,
                                 turn, history6, hard, soft, validation)]
           ELSE /\ CONVERSATIONS' = store1
                /\ groq_client' = groq_client
                /\ response' = [response EXCEPT ![conversation_id] =
                        Envelope(gate, None, intel, turn, history1, hard, soft, validation)]

-----------------------------------------------------------------------------
(* The pipeline as a state machine *)

\* the policy harness is idle in the pipeline specification
HarnessIdle == signals = Absent /\ decision = Absent /\ conversation_history = <<>>

\* nothing logged yet
LogsIdle ==
    /\ appended = <<>>
    /\ engagement = <<>>
    /\ escalation = Absent
    /\ reply = None
    /\ pending = {}

\* the pipeline is idle in the policy specifications
PipelineIdle ==
    /\ CONVERSATIONS = <<>>
    /\ response = [c \in ConversationIds |-> Absent]
    /\ prev_response = [c \in ConversationIds |-> Absent]
    /\ request = Absent
    /\ groq_client = None
    /\ GROQ_API_KEY = FALSE
    /\ handled = 0

\* the process after import: empty memory, no client, the key set or not
Init ==
    /\ CONVERSATIONS = <<>>
    /\ response = [c \in ConversationIds |-> Absent]
    /\ prev_response = [c \in ConversationIds |-> Absent]
    /\ request = Absent
    /\ groq_client = None
    /\ GROQ_API_KEY \in BOOLEAN
    /\ handled = 0
    /\ HarnessIdle
    /\ LogsIdle

\* POST / or POST /honeypot with a well-formed body
Request ==
    /\ handled < MaxRequests
    /\ \E conversation_id \in ConversationIds, turn \in Turns,
          message \in Messages, execution_mode \in ExecutionModes :
            honeypot_endpoint_logic(conversation_id, turn, message, execution_mode)
    /\ handled' = handled + 1
    /\ UNCHANGED <<GROQ_API_KEY, signals, decision, conversation_history>>
    /\ UNCHANGED logs

\* the operator sets GROQ_API_KEY in the environment of the running process
SetApiKey ==
    /\ ~GROQ_API_KEY
    /\ GROQ_API_KEY' = TRUE
    /\ UNCHANGED <<CONVERSATIONS, response, request, prev_response, groq_client,
                   handled, signals, decision, conversation_history>>
    /\ UNCHANGED logs

Next == Request \/ SetApiKey

Spec == Init /\ [][Next]_vars

-----------------------------------------------------------------------------
(* The policy engine applied to signal records *)

\* Bounds of the signal records
MaxActions == 1
MaxUrgencyPhrases == 3
MaxRespectMarkers == 2

\* a signal record with the given field values; each phrase list is non-empty
\* exactly when its flag is set, and the intensity follows the phrase count
MakeSignals(actions, n_urgency, authority, fear, reward, verification, mixing, n_respect, impersonation, extraction, layers) ==
    LET psychological ==
            [urgency_present |-> n_urgency > 0,
             urgency_phrases |-> Take(URGENCY_INDICATORS, n_urgency),
             urgency_intensity |->
                IF n_urgency = 0 THEN "none"
                ELSE IF n_urgency >= 3 THEN "high"
                ELSE IF n_urgency = 2 THEN "medium"
                ELSE "low",
             authority_claimed |-> authority,
             authority_entities |-> IF authority THEN Take(AUTHORITY_CLAIMS, 1) ELSE <<>>,
             fear_tactics_present |-> fear,
             fear_phrases |-> IF fear THEN Take(FEAR_TACTICS, 1) ELSE <<>>,
             reward_baiting |-> reward,
             reward_phrases |-> IF reward THEN Take(REWARD_BAITS, 1) ELSE <<>>,
             verification_requested |-> verification,
             verification_phrases |->
                IF verification THEN Take(VERIFICATION_REQUESTS, 1) ELSE <<>>]
    IN  [irreversible |->
            [requested_actions |-> actions,
             explicit_phrases |->
                [k \in 1..Len(AsList(actions)) |-> IRREVERSIBLE_ACTIONS[AsList(actions)[k]][1]]],
         psychological |-> psychological,
         linguistic |->
            [language_mixing |-> mixing,
             hindi_word_count |-> IF mixing THEN 1 ELSE 0,
             english_word_count |-> 1,
             excessive_respect |-> n_respect >= 2,
             respect_marker_count |-> n_respect,
             formal_hindi_present |-> FALSE,
             impersonation_language |-> impersonation,
             impersonation_phrases |->
                IF impersonation THEN Take(IMPERSONATION_SIGNALS, 1) ELSE <<>>],
         contextual |->
            [information_extraction_attempt |-> extraction,
             data_fields_requested |->
                IF extraction THEN Take(INFORMATION_EXTRACTION, 1) ELSE <<>>,
             multiple_urgency_layers |-> layers,
             combined_tactics |-> IF layers THEN Tactics(psychological) ELSE <<>>,
             escalation_detected |->
                \/ layers
                \/ verification /\ (n_urgency > 0 \/ authority)]]

ActionSets == {a \in SUBSET Range(CATEGORIES) : Cardinality(a) <= MaxActions}

SignalRecords ==
    {MakeSignals(a, u, f[1], f[2], f[3], f[4], f[5], r, f[6], f[7], f[8]) :
        a \in ActionSets, u \in 0..MaxUrgencyPhrases, r \in 0..MaxRespectMarkers,
        f \in [1..8 -> BOOLEAN]}

InitTurn ==
    /\ PipelineIdle
    /\ LogsIdle
    /\ signals \in SignalRecords
    /\ decision = Absent
    /\ conversation_history = <<>>

\* ScamDetectionPolicy.evaluate_single_turn(signals)
EvaluateSingleTurn ==
    /\ decision = Absent
    /\ decision' = evaluate_single_turn(signals)
    /\ UNCHANGED <<CONVERSATIONS, response, request, prev_response, groq_client,
                   GROQ_API_KEY, handled, signals, conversation_history>>
    /\ UNCHANGED logs

\* evaluate_message(signals, conversation_history) with no prior decisions
EvaluateMessage ==
    /\ decision = Absent
    /\ decision' = evaluate_message(signals, conversation_history)
    /\ UNCHANGED <<CONVERSATIONS, response, request, prev_response, groq_client,
                   GROQ_API_KEY, handled, signals, conversation_history>>
    /\ UNCHANGED logs

NextTurn == EvaluateSingleTurn \/ EvaluateMessage

SpecTurn == InitTurn /\ [][NextTurn]_vars

-----------------------------------------------------------------------------
(* A conversation evaluated turn by turn: the prior-decision list passed at
   each turn is the list of the decisions returned for the earlier turns *)

MaxTurns == 3

TurnMessages ==
    Messages \cup
    {"Scan this QR to receive refund",
     "RBI officer here sir please call urgent",
     "Police officer here, your account is blocked",
     "Urgent: claim your refund today",
     "I am from support, share your address",
     "Respected sir madam, bank update",
     "Reply today, offer will expire",
     "What is your address"}

\* extract_signals over the messages of the model
SignalsOf == [message \in TurnMessages |-> extract_signals(message)]

InitConversation ==
    /\ PipelineIdle
    /\ LogsIdle
    /\ signals = Absent
    /\ decision = Absent
    /\ conversation_history = <<>>

\* ScamDetectionPolicy.evaluate_conversation(signals, conversation_history)
EvaluateConversation ==
    LET prior == IF decision = Absent THEN <<>> ELSE Append(conversation_history, decision)
    IN  /\ Len(prior) < MaxTurns
        /\ \E message \in TurnMessages :
            /\ signals' = SignalsOf[message]
            /\ decision' = evaluate_conversation(SignalsOf[message], prior)
        /\ conversation_history' = prior
        /\ UNCHANGED <<CONVERSATIONS, response, request, prev_response, groq_client,
                       GROQ_API_KEY, handled>>
        /\ UNCHANGED logs

NextConversation == EvaluateConversation

SpecConversation == InitConversation /\ [][NextConversation]_vars

-----------------------------------------------------------------------------
(* The conversation memory under sequences of append_message calls *)

MaxAppends == 8

\* the (role, message) pairs appended in this specification
AppendedEntries == {<<"scammer", "Thank you">>, <<"agent", "Hello?">>}

InitMemory ==
    /\ PipelineIdle
    /\ HarnessIdle
    /\ LogsIdle

\* append_message(conversation_id, role, message)
AppendMessage ==
    /\ Len(appended) < MaxAppends
    /\ \E conversation_id \in ConversationIds, e \in AppendedEntries :
        /\ CONVERSATIONS' = append_message(CONVERSATIONS, conversation_id, e[1], e[2])
        /\ appended' = Append(appended, <<conversation_id, Entry(e[1], e[2])>>)
    /\ UNCHANGED <<response, request, prev_response, groq_client, GROQ_API_KEY,
                   handled, signals, decision, conversation_history,
                   engagement, escalation, reply, pending>>

NextMemory == AppendMessage

SpecMemory == InitMemory /\ [][NextMemory]_vars

-----------------------------------------------------------------------------
(* One conversation engaged over a longer sequence of live and shadow
   requests, with a log of the agent replies given in it *)

MaxEngagements == 6

EngagedConversation == "A"
EngageMessages == {"Thank you", "We need your OTP to verify account"}

\* the branch of generate_agent_reply that produces the reply for a history
ReplyBranch(history) ==
    IF history = <<>> \/ last_scammer_msg(history) \in {None, ""} THEN "default"
    ELSE IF UsesLLM(history) THEN "llm"
    ELSE "scripted"

InitEngagement ==
    /\ CONVERSATIONS = <<>>
    /\ response = [c \in ConversationIds |-> Absent]
    /\ prev_response = [c \in ConversationIds |-> Absent]
    /\ request = Absent
    /\ groq_client = None
    /\ GROQ_API_KEY \in BOOLEAN
    /\ handled = 0
    /\ HarnessIdle
    /\ LogsIdle

\* a request to the engaged conversation; a live request logs the reply with
\* the branch, intent and language generate_agent_reply used for it
Engage ==
    /\ handled < MaxEngagements
    /\ \E message \in EngageMessages, execution_mode \in ExecutionModes :
        LET history ==
                get_history(append_message(CONVERSATIONS, EngagedConversation,
                                           "scammer", message),
                            EngagedConversation)
        IN  /\ honeypot_endpoint_logic(EngagedConversation, 2, message, execution_mode)
            /\ engagement' =
                IF execution_mode = "live"
                THEN Append(engagement,
                        [branch |-> ReplyBranch(history),
                         intent |-> Analysed[last_scammer_msg(history)].intent,
                         language |-> Analysed[last_scammer_msg(history)].language,
                         reply |-> response'[EngagedConversation].agent_reply])
                ELSE engagement
    /\ handled' = handled + 1
    /\ UNCHANGED <<GROQ_API_KEY, signals, decision, conversation_history,
                   appended, escalation, reply, pending>>

NextEngagement == Engage

SpecEngagement == InitEngagement /\ [][NextEngagement]_vars

-----------------------------------------------------------------------------
(* generate_agent_reply applied to a history *)

MaxReplyHistory == 3

MaxReplies == 2

\* the entries of the histories: the scammer messages and one agent turn
ReplyEntries ==
    {Entry("scammer", message) : message \in ReplyMessages} \cup {Entry("agent", "Hello?")}

ReplyHistories == UNION {[1..n -> ReplyEntries] : n \in 0..MaxReplyHistory}

\* the stored history of the engaged conversation is any of the histories
InitReply ==
    /\ \E history \in ReplyHistories :
        CONVERSATIONS =
            IF history = <<>> THEN <<>>
            ELSE [c \in {EngagedConversation} |-> history]
    /\ response = [c \in ConversationIds |-> Absent]
    /\ prev_response = [c \in ConversationIds |-> Absent]
    /\ request = Absent
    /\ groq_client = None
    /\ GROQ_API_KEY \in BOOLEAN
    /\ handled = 0
    /\ HarnessIdle
    /\ LogsIdle

\* agent_reply = generate_agent_reply(history); the log records the branch
\* taken, the memoized client and the environment before the call, the
\* client the LLM branch obtained and what the LLM call did
GenerateReply ==
    LET history == get_history(CONVERSATIONS, EngagedConversation)
    IN  /\ Len(engagement) < MaxReplies
        /\ \E init_ok \in (IF UsesLLM(history) THEN BOOLEAN ELSE {TRUE}),
              outcome \in (IF UsesLLM(history) THEN LLMOutcomes ELSE {LLMError}) :
            LET client == _get_groq_client(groq_client, GROQ_API_KEY, init_ok)
            IN  /\ reply' = generate_agent_reply(history, client, outcome)
                /\ groq_client' = IF UsesLLM(history) THEN client ELSE groq_client
                /\ engagement' =
                    Append(engagement,
                        [branch |-> ReplyBranch(history),
                         reply |-> generate_agent_reply(history, client, outcome),
                         memo |-> groq_client,
                         api_key |-> GROQ_API_KEY,
                         client |-> client,
                         outcome |-> outcome])
        /\ UNCHANGED <<CONVERSATIONS, response, request, prev_response, GROQ_API_KEY,
                       handled, signals, decision, conversation_history,
                       appended, escalation, pending>>

NextReply == GenerateReply \/ SetApiKey

SpecReply == InitReply /\ [][NextReply]_vars

-----------------------------------------------------------------------------
(* detect_escalation over a conversation stored with signal snapshots *)

MaxSnapshots == 4

\* the signal snapshots of the stored entries: no snapshot, a snapshot
\* without urgency_score, and snapshots with a score and an action list
Snapshots ==
    {EmptyDict, [irreversible_actions |-> <<"credential_sharing">>]} \cup
    {[urgency_score |-> u, irreversible_actions |-> a] :
        u \in {1, 2, 3}, a \in {<<>>, <<"credential_sharing">>}}

InitEscalation == PipelineIdle /\ HarnessIdle /\ LogsIdle

\* append_message(conversation_id, "scammer", message, signals)
AppendSnapshot ==
    /\ Len(appended) < MaxSnapshots
    /\ \E snapshot \in Snapshots :
        /\ CONVERSATIONS' =
            append_snapshot(CONVERSATIONS, EngagedConversation, "scammer",
                            "Thank you", snapshot)
        /\ appended' = Append(appended, <<EngagedConversation, snapshot>>)
    /\ escalation' = Absent
    /\ UNCHANGED <<response, request, prev_response, groq_client, GROQ_API_KEY,
                   handled, signals, decision, conversation_history,
                   engagement, reply, pending>>

\* escalation = detect_escalation(conversation_id)
DetectEscalationOf ==
    /\ escalation = Absent
    /\ escalation' = detect_escalation(CONVERSATIONS, EngagedConversation)
    /\ UNCHANGED <<CONVERSATIONS, response, request, prev_response, groq_client,
                   GROQ_API_KEY, handled, signals, decision, conversation_history,
                   appended, engagement, reply, pending>>

NextEscalation == AppendSnapshot \/ DetectEscalationOf

SpecEscalation == InitEscalation /\ [][NextEscalation]_vars

-----------------------------------------------------------------------------
(* Requests handled while steps of the pipeline fail *)

MaxFaults == 2

MaxFaultyRequests == 2

\* the sets of steps that fail together in one request
FaultSets == {failed \in SUBSET Steps : Cardinality(failed) <= MaxFaults}

\* another conversation, stored by an earlier live request with the message
\* "Thank you"
OtherConversation == "B"

OtherHistory ==
    <<Entry("scammer", "Thank you"),
      Entry("agent", generate_agent_reply(<<Entry("scammer", "Thank you")>>, None, LLMError))>>

InitFaults ==
    /\ CONVERSATIONS = [c \in {OtherConversation} |-> OtherHistory]
    /\ response = [c \in ConversationIds |-> Absent]
    /\ prev_response = [c \in ConversationIds |-> Absent]
    /\ request = Absent
    /\ groq_client = None
    /\ GROQ_API_KEY \in BOOLEAN
    /\ handled = 0
    /\ HarnessIdle
    /\ LogsIdle

\* a request to the engaged conversation during which the steps in `failed`
\* raise; the log holds the failed steps of the latest request
HandleWithFaults ==
    /\ handled < MaxFaultyRequests
    /\ \E message \in EngageMessages, execution_mode \in ExecutionModes,
          failed \in FaultSets :
        /\ honeypot_endpoint_logic_failing(EngagedConversation, 2, message,
                                           execution_mode, failed)
        /\ engagement' = <<[failed |-> failed]>>
    /\ handled' = handled + 1
    /\ UNCHANGED <<prev_response, GROQ_API_KEY, signals, decision,
                   conversation_history, appended, escalation, reply, pending>>

NextFaults == HandleWithFaults

SpecFaults == InitFaults /\ [][NextFaults]_vars

-----------------------------------------------------------------------------
(* _detect_language applied to messages of given character counts *)

MaxDevanagari == 8

MaxLatin == 10

RECURSIVE Repeat(_, _)
\* c * n
Repeat(c, n) == IF n = 0 THEN "" ELSE c \o Repeat(c, n - 1)

\* a message of d Devanagari characters and l Latin letters that spell no
\* Hinglish marker, followed by m times the marker "hai"
LanguageText(d, l, m) == Repeat("^", d) \o Repeat("x", l) \o Repeat(" hai", m)

\* language = _detect_language(text); the log holds the text, its counts and
\* the language returned
DetectLanguage ==
    /\ engagement = <<>>
    /\ \E d \in 0..MaxDevanagari, l \in 0..MaxLatin, m \in {0, 1} :
        engagement' =
            <<[text |-> LanguageText(d, l, m),
               devanagari |-> d,
               latin |-> l + m * Len("hai"),
               markers |-> m,
               language |-> _detect_language(LanguageText(d, l, m))]>>
    /\ UNCHANGED <<CONVERSATIONS, response, request, prev_response, groq_client,
                   GROQ_API_KEY, handled, signals, decision, conversation_history,
                   appended, escalation, reply, pending>>

NextLanguage == DetectLanguage

SpecLanguage == InitMemory /\ [][NextLanguage]_vars

-----------------------------------------------------------------------------
(* Requests for one conversation handled concurrently.  root_post and
   honeypot_endpoint are coroutines on one event loop: a handler is suspended
   at `await request.json()`, and once resumed it runs the synchronous
   honeypot_endpoint_logic to its return without another await *)

MaxConcurrent == 3

\* the engaged conversation after two earlier live requests
EarlierHistory ==
    OtherHistory \o
    <<Entry("scammer", "Thank you"),
      Entry("agent",
            generate_agent_reply(Append(OtherHistory, Entry("scammer", "Thank you")),
                                 None, LLMError))>>

InitConcurrent ==
    /\ CONVERSATIONS = [c \in {EngagedConversation} |-> EarlierHistory]
    /\ response = [c \in ConversationIds |-> Absent]
    /\ prev_response = [c \in ConversationIds |-> Absent]
    /\ request = Absent
    /\ groq_client = None
    /\ GROQ_API_KEY = FALSE
    /\ handled = 0
    /\ HarnessIdle
    /\ LogsIdle

\* a request arrives: its handler starts and is suspended at the await
Arrive ==
    /\ handled + Cardinality(pending) < MaxConcurrent
    /\ \E message \in EngageMessages, execution_mode \in ExecutionModes :
        pending' = pending \cup
            {[arrival |-> handled + Cardinality(pending) + 1,
              message |-> message,
              execution_mode |-> execution_mode]}
    /\ UNCHANGED <<CONVERSATIONS, response, request, prev_response, groq_client,
                   GROQ_API_KEY, handled, signals, decision, conversation_history,
                   appended, engagement, escalation, reply>>

\* the event loop resumes one suspended handler, which runs
\* honeypot_endpoint_logic to its return; the log holds its append_message
\* calls in the order they were made, with the arrival number of the request
Resume ==
    /\ \E p \in pending :
        /\ honeypot_endpoint_logic(EngagedConversation, 2, p.message, p.execution_mode)
        /\ pending' = pending \ {p}
        /\ appended' =
            appended
            \o <<<<EngagedConversation, Entry("scammer", p.message), p.arrival>>>>
            \o (IF p.execution_mode = "live"
                THEN <<<<EngagedConversation,
                         Entry("agent", response'[EngagedConversation].agent_reply),
                         p.arrival>>>>
                ELSE <<>>)
    /\ handled' = handled + 1
    /\ UNCHANGED <<GROQ_API_KEY, signals, decision, conversation_history,
                   engagement, escalation, reply>>

NextConcurrent == Arrive \/ Resume

SpecConcurrent == InitConcurrent /\ [][NextConcurrent]_vars

-----------------------------------------------------------------------------
(* Properties of the multi-turn policy, checked under SpecConversation *)

\* the severity order of the risk bands: BENIGN < LOW < MEDIUM < HIGH < CRITICAL
SeverityOrder == <<"BENIGN", "LOW", "MEDIUM", "HIGH", "CRITICAL">>
Severity(band) == CHOOSE i \in 1..Len(SeverityOrder) : SeverityOrder[i] = band

\* the high-risk subset of the irreversible-action categories
HighRiskSubset ==
    {"credential_sharing", "remote_access_installation",
     "immediate_payment", "account_access_sharing"}

\* some earlier turn of the conversation returned scam_detected = true
PriorScam == \E i \in 1..Len(conversation_history) : conversation_history[i].scam_detected

\* C1: monotone risk. In a conversation evaluated turn by turn, the band
\* returned at turn n is at least as severe as the band returned at every
\* earlier turn, under BENIGN < LOW < MEDIUM < HIGH < CRITICAL.
C1_MonotoneRisk ==
    decision # Absent =>
        \A i \in 1..Len(conversation_history) :
            Severity(decision.risk_band) >= Severity(conversation_history[i].risk_band)

\* C2: sticky scam. Once some turn of the conversation returned
\* scam_detected = true, the turn evaluated now returns scam_detected = true,
\* whatever its signals are.
C2_StickyScam ==
    decision # Absent => (PriorScam => decision.scam_detected)

\* a signal-free turn after a scam turn: its own band is BENIGN and the
\* decision returned for it still reports a scam
C2_Witness ==
    /\ decision # Absent
    /\ PriorScam
    /\ signals.irreversible.requested_actions = {}
    /\ decision.risk_band = "BENIGN"
    /\ decision.scam_detected

\* evaluate_single_turn over every signal record: a CRITICAL band implies a
\* requested action of the high-risk subset
C5_SingleTurn ==
    \A s \in SignalRecords :
        evaluate_single_turn(s).risk_band = "CRITICAL" =>
            s.irreversible.requested_actions \cap HighRiskSubset # {}

C7_WhitelistNeverScam ==
    (decision # Absent /\ is_legitimate_verification(signals)) =>
        ~decision.scam_detected

\* evaluate_single_turn over every signal record on which the whitelist fires
C7_SingleTurn ==
    \A s \in SignalRecords :
        is_legitimate_verification(s) => ~evaluate_single_turn(s).scam_detected

\* C7, amended: whenever the legitimacy whitelist fires on a signal record,
\* evaluate_single_turn returns scam_detected = false, and so does
\* evaluate_conversation when no prior decision has scam_detected = true.
C7_WhitelistNeverScamUnlessSticky ==
    /\ C7_SingleTurn
    /\ (decision # Absent /\ is_legitimate_verification(signals) /\ ~PriorScam) =>
            ~decision.scam_detected

\* the whitelist fires on a later turn of a conversation without a scam turn
C7_Witness ==
    /\ decision # Absent
    /\ is_legitimate_verification(signals)
    /\ Len(conversation_history) >= 1
    /\ ~PriorScam
    /\ ~decision.scam_detected

-----------------------------------------------------------------------------
(* Properties of evaluate_single_turn, checked under SpecTurn *)

\* C4: when the requested actions include a high-risk category the decision
\* is CRITICAL with scam_detected = true; when an irreversible action is
\* requested but none is high-risk it is HIGH with scam_detected = true;
\* whatever the other signals are.
C4_IrreversibleTiers ==
    decision # Absent =>
        LET actions == signals.irreversible.requested_actions
        IN  /\ actions \cap HighRiskSubset # {} =>
                (decision.risk_band = "CRITICAL" /\ decision.scam_detected)
            /\ (actions # {} /\ actions \cap HighRiskSubset = {}) =>
                (decision.risk_band = "HIGH" /\ decision.scam_detected)

\* a high-risk request that also asks for verification without urgency
C4_Witness ==
    /\ decision # Absent
    /\ "account_access_sharing" \in signals.irreversible.requested_actions
    /\ signals.psychological.verification_requested
    /\ ~signals.psychological.urgency_present
    /\ decision.risk_band = "CRITICAL"

\* the verdict of the whitelist tier
WhitelistVerdict(d) ==
    /\ ~d.scam_detected
    /\ d.risk_band = "LOW"
    /\ d.confidence = "medium"
    /\ d.engagement_stance = "ALLOW"

\* C6: evaluate_single_turn returns the whitelist verdict exactly when
\* is_legitimate_verification holds, that is: no irreversible action, no
\* fear tactics, verification requested and no urgency; and
\* is_legitimate_verification is false whenever requested_actions is non-empty.
C6_WhitelistExactly ==
    decision # Absent =>
        LET legitimate ==
                /\ signals.irreversible.requested_actions = {}
                /\ ~signals.psychological.fear_tactics_present
                /\ signals.psychological.verification_requested
                /\ ~signals.psychological.urgency_present
        IN  /\ is_legitimate_verification(signals) <=> legitimate
            /\ WhitelistVerdict(decision) <=> legitimate
            /\ signals.irreversible.requested_actions # {} =>
                    ~is_legitimate_verification(signals)

\* the whitelist verdict on a record that also claims an authority and baits
\* with a reward
C6_Witness ==
    /\ decision # Absent
    /\ WhitelistVerdict(decision)
    /\ signals.psychological.authority_claimed
    /\ signals.psychological.reward_baiting

\* the tiers in the order of the ladder, each with its condition and band
Tiers(s) ==
    LET authority == s.psychological.authority_claimed
        urgency == s.psychological.urgency_present
        fear == s.psychological.fear_tactics_present
        reward == s.psychological.reward_baiting
        actions == s.irreversible.requested_actions
        extraction == s.contextual.information_extraction_attempt
        legitimate_authority ==
            /\ ~(authority /\ fear)
            /\ ~(authority /\ urgency /\ (fear \/ reward))
            /\ ~(authority /\ s.linguistic.excessive_respect)
    IN  << <<actions \cap HighRiskSubset # {}, "CRITICAL">>,
           <<actions # {}, "HIGH">>,
           <<actions = {} /\ ~fear /\ s.psychological.verification_requested /\ ~urgency,
             "LOW">>,
           <<authority /\ urgency /\ s.linguistic.language_mixing, "HIGH">>,
           <<s.contextual.multiple_urgency_layers,
             IF authority THEN "HIGH" ELSE "MEDIUM">>,
           <<authority /\ fear, "HIGH">>,
           <<extraction /\ s.linguistic.impersonation_language, "HIGH">>,
           <<authority /\ ~legitimate_authority, "MEDIUM">>,
           <<s.psychological.urgency_intensity \in {"high", "medium"}, "MEDIUM">>,
           <<extraction, "MEDIUM">>,
           <<\/ s.psychological.urgency_intensity = "low"
             \/ reward
             \/ s.linguistic.language_mixing
             \/ s.linguistic.excessive_respect,
             "LOW">>,
           <<TRUE, "BENIGN">> >>

\* the first tier of the ladder whose condition holds
FirstTier(s) ==
    CHOOSE i \in 1..Len(Tiers(s)) :
        /\ Tiers(s)[i][1]
        /\ \A j \in 1..(i - 1) : ~Tiers(s)[j][1]

\* C8: evaluate_single_turn returns the band of the first tier of the ladder
\* whose condition holds; the urgency and information-extraction tiers
\* return scam_detected = false and the benign tier confidence high.
C8_FirstTierWins ==
    decision # Absent =>
        LET first == FirstTier(signals)
        IN  /\ decision.risk_band = Tiers(signals)[first][2]
            /\ first \in {9, 10} => ~decision.scam_detected
            /\ first = 12 => decision.confidence = "high"

\* the whitelist (third tier) wins over multiple urgency layers, suspicious
\* authority and information extraction, whose conditions hold as well
C8_Witness ==
    /\ decision # Absent
    /\ FirstTier(signals) = 3
    /\ signals.contextual.multiple_urgency_layers
    /\ signals.psychological.authority_claimed
    /\ signals.linguistic.excessive_respect
    /\ signals.contextual.information_extraction_attempt
    /\ decision.risk_band = "LOW"

-----------------------------------------------------------------------------
(* Properties of the request pipeline, checked under Spec *)

\* the request handled last was the first one of its conversation
FreshConversation ==
    /\ request # Absent
    /\ prev_response[request.conversation_id] = Absent

\* C3: for the requests handled on one conversation_id, risk_score never
\* decreases from one response to the next and scam_detected, once true,
\* stays true (a "Thank you" after a CRITICAL response is still CRITICAL
\* with scam_detected = true).
C3_EndToEndMonotone ==
    \A c \in ConversationIds :
        prev_response[c] # Absent =>
            /\ Severity(response[c].risk_score) >= Severity(prev_response[c].risk_score)
            /\ prev_response[c].scam_detected => response[c].scam_detected

\* a message that claims an authority with exactly one respect marker and no
\* urgency, fear, reward, irreversible action or information extraction
AuthorityWithOneRespectMarker(message) ==
    LET s == SignalsOf[message]
    IN  /\ s.psychological.authority_claimed
        /\ s.linguistic.respect_marker_count = 1
        /\ ~s.psychological.urgency_present
        /\ ~s.psychological.fear_tactics_present
        /\ ~s.psychological.reward_baiting
        /\ s.irreversible.requested_actions = {}
        /\ ~s.contextual.information_extraction_attempt

\* C9 as stated: on a fresh conversation such a message yields a response
\* with risk_score MEDIUM and scam_detected = false.
C9_OneMarkerIsMedium ==
    (FreshConversation /\ AuthorityWithOneRespectMarker(request.message)) =>
        /\ response[request.conversation_id].risk_score = "MEDIUM"
        /\ ~response[request.conversation_id].scam_detected

\* C9, amended: on a fresh conversation such a message yields a response
\* with scam_detected = false and risk_score BENIGN, or LOW when the message
\* mixes Hindi-romanized and English tokens.
C9_OneMarkerIsBenignOrLow ==
    (FreshConversation /\ AuthorityWithOneRespectMarker(request.message)) =>
        /\ ~response[request.conversation_id].scam_detected
        /\ response[request.conversation_id].risk_score =
                IF SignalsOf[request.message].linguistic.language_mixing
                THEN "LOW" ELSE "BENIGN"

\* the first request of a conversation carries the message with "sir,"
C9_Witness ==
    /\ FreshConversation
    /\ AuthorityWithOneRespectMarker(request.message)
    /\ request.message = "Hello sir, I am calling from State Bank"
    /\ response[request.conversation_id].risk_score = "BENIGN"

\* a message with a verification-request word and no urgency, fear,
\* authority, reward or irreversible-action phrase
VerificationOnly(message) ==
    LET s == SignalsOf[message]
    IN  /\ s.psychological.verification_requested
        /\ ~s.psychological.urgency_present
        /\ ~s.psychological.fear_tactics_present
        /\ ~s.psychological.authority_claimed
        /\ ~s.psychological.reward_baiting
        /\ s.irreversible.requested_actions = {}

\* C10: on a fresh conversation a verification-only message yields a
\* response with scam_detected = false and risk_score LOW (the verdict of
\* the legitimacy whitelist).
C10_VerificationIsLow ==
    (FreshConversation /\ VerificationOnly(request.message)) =>
        /\ ~response[request.conversation_id].scam_detected
        /\ response[request.conversation_id].risk_score = "LOW"

\* the messages that contain an authority word, an urgency word and a
\* romanized-Hindi lexicon word next to English words, a word being a
\* maximal run of word characters (so "ji," holds the word "ji")
TrinityMessages ==
    {message \in Messages :
        LET words == Range(WordsFrom(Lower(message), 1, ""))
        IN  /\ SignalsOf[message].psychological.authority_claimed
            /\ SignalsOf[message].psychological.urgency_present
            /\ words \cap Range(HINDI_ROMANIZED_WORDS) # {}
            /\ \E w \in words \ Range(HINDI_ROMANIZED_WORDS) : IsAsciiAlpha(w)}

\* C11: a message with an authority word, an urgency word and a
\* romanized-Hindi word next to English words (also when the Hindi word is
\* followed by punctuation) has language_mixing = true and is decided by the
\* classic-trinity tier: risk HIGH, scam_detected = true.
C11_TrinityOnMixedMessage ==
    (request # Absent /\ request.message \in TrinityMessages) =>
        LET r == response[request.conversation_id]
        IN  /\ SignalsOf[request.message].linguistic.language_mixing
            /\ r.explanation.soft_signals.language_mixing
            /\ r.risk_score = "HIGH"
            /\ r.scam_detected
            /\ \E k \in 1..Len(r.explanation.reasons) :
                    Contains(r.explanation.reasons[k], "CLASSIC SCAM PATTERN")

-----------------------------------------------------------------------------
(* Properties of the conversation memory, checked under SpecMemory *)

\* the entries appended to a conversation so far, in order
AppendedTo(conversation_id) ==
    LET mine == SelectSeq(appended, LAMBDA a : a[1] = conversation_id)
    IN  [k \in 1..Len(mine) |-> mine[k][2]]

\* the last min(Len(list), n) elements of a list
LastOf(list, n) ==
    IF Len(list) <= n THEN list ELSE SubSeq(list, Len(list) - n + 1, Len(list))

\* C12: after any sequence of append_message calls the stored history of
\* every conversation_id has at most MAX_HISTORY entries and equals, in
\* order, the last min(n, MAX_HISTORY) of the n messages appended to it.
C12_HistoryIsLastSix ==
    \A c \in ConversationIds :
        /\ Len(get_history(CONVERSATIONS, c)) <= MAX_HISTORY
        /\ get_history(CONVERSATIONS, c) = LastOf(AppendedTo(c), MAX_HISTORY)

\* more than MAX_HISTORY entries were appended to one conversation while
\* the other one received an entry too
C12_Witness ==
    /\ Len(AppendedTo("A")) > MAX_HISTORY
    /\ Len(AppendedTo("B")) >= 1
    /\ Len(get_history(CONVERSATIONS, "A")) = MAX_HISTORY

-----------------------------------------------------------------------------
(* Properties of a longer engagement, checked under SpecEngagement *)

\* C13: for any sequence of live and shadow requests to one conversation the
\* engagement_metrics.history_length of the response never exceeds MAX_HISTORY.
C13_HistoryLengthBounded ==
    response[EngagedConversation] # Absent =>
        response[EngagedConversation].engagement_metrics.history_length <= MAX_HISTORY

\* C15: within one conversation the scripted branch produces exactly the
\* first two agent replies; every later agent reply is produced by the LLM
\* branch and never by the scripted branch.
C15_ScriptedThenLLM ==
    \A k \in 1..Len(engagement) :
        engagement[k].branch = IF k <= 2 THEN "scripted" ELSE "llm"

\* C16: within one conversation the first two scripted replies generated
\* for the same intent and the same detected language are distinct strings.
C16_FirstTwoScriptedDistinct ==
    \A i, j \in 1..Len(engagement) :
        LET same(k) ==
                /\ engagement[k].branch = "scripted"
                /\ engagement[k].intent = engagement[i].intent
                /\ engagement[k].language = engagement[i].language
        IN  (/\ i < j
             /\ same(i)
             /\ same(j)
             /\ \A k \in 1..(j - 1) : same(k) => k = i)
            => engagement[i].reply # engagement[j].reply

\* C14: a request with execution_mode = "shadow" returns agent_reply = null
\* and appends exactly one message, the scammer message, to its
\* conversation (the stored history keeps its last MAX_HISTORY entries); no
\* agent turn is added and no other conversation changes.
C14_ShadowAppendsScammerOnly ==
    [][(handled' = handled + 1 /\ request'.execution_mode = "shadow") =>
        LET c == request'.conversation_id
            scammer == [role |-> "scammer", message |-> request'.message,
                        signals |-> <<>>]
        IN  /\ response'[c].agent_reply = None
            /\ get_history(CONVERSATIONS', c) =
                    LastOf(Append(get_history(CONVERSATIONS, c), scammer), MAX_HISTORY)
            /\ \A other \in ConversationIds \ {c} :
                    get_history(CONVERSATIONS', other) = get_history(CONVERSATIONS, other)
      ]_vars

\* a shadow request handled after live ones: the stored history holds agent
\* turns and ends with the scammer message of the shadow request
C14_Witness ==
    /\ request # Absent
    /\ request.execution_mode = "shadow"
    /\ response[request.conversation_id].agent_reply = None
    /\ LET history == get_history(CONVERSATIONS, request.conversation_id)
       IN  /\ Len(history) = MAX_HISTORY
           /\ agent_count(history) >= 2
           /\ history[Len(history)].role = "scammer"
           /\ history[Len(history)].message = request.message

-----------------------------------------------------------------------------
(* Properties of generate_agent_reply, checked under SpecReply *)

\* the history generate_agent_reply was applied to
RepliedHistory == get_history(CONVERSATIONS, EngagedConversation)

\* the stripped text of the latest scammer message, "" when there is none
LatestScammerText ==
    IF last_scammer_msg(RepliedHistory) = None THEN ""
    ELSE last_scammer_msg(RepliedHistory)

\* the scripted replies for the intent and language of the latest scammer
\* message
ScriptedReplies ==
    Range(MANUAL_RESPONSES[Analysed[LatestScammerText].intent]
                          [Analysed[LatestScammerText].language])

\* C17 as stated: for every history with fewer than two agent turns,
\* including the empty history and one whose latest scammer message is empty
\* or whitespace-only, the reply is an element of
\* MANUAL_RESPONSES[intent][language].
C17_ScriptedBelowTwo ==
    (reply # None /\ agent_count(RepliedHistory) < 2) => reply \in ScriptedReplies

\* C17, amended: for every history with fewer than two agent turns whose
\* latest scammer message is non-empty after stripping, the reply is an
\* element of MANUAL_RESPONSES[intent][language]; for the empty history the
\* reply is "Hello?" and for a history without a non-empty scammer message
\* it is "Yes, I'm listening?".
C17_ScriptedBelowTwoWithMessage ==
    (reply # None /\ agent_count(RepliedHistory) < 2) =>
        IF RepliedHistory = <<>> THEN reply = "Hello?"
        ELSE IF LatestScammerText = "" THEN reply = "Yes, I'm listening?"
        ELSE reply \in ScriptedReplies

\* the second scripted reply: one agent turn so far, a hinglish message
C17_Witness ==
    /\ reply # None
    /\ agent_count(RepliedHistory) = 1
    /\ Analysed[LatestScammerText].language = "hinglish"
    /\ reply = MANUAL_RESPONSES[Analysed[LatestScammerText].intent]["hinglish"][2]

-----------------------------------------------------------------------------
(* Properties of detect_escalation, checked under SpecEscalation *)

\* the stored messages of the conversation
StoredMessages == get_history(CONVERSATIONS, EngagedConversation)

\* the positions of the stored messages that carry a numeric urgency_score
ScoredPositions ==
    {i \in 1..Len(StoredMessages) :
        /\ "urgency_score" \in DOMAIN StoredMessages[i].signals
        /\ StoredMessages[i].signals.urgency_score \in Int}

\* the positions of the stored messages with a non-empty irreversible_actions
IrreversiblePositions ==
    {i \in 1..Len(StoredMessages) :
        /\ "irreversible_actions" \in DOMAIN StoredMessages[i].signals
        /\ StoredMessages[i].signals.irreversible_actions # <<>>}

Least(S) == CHOOSE i \in S : \A j \in S : i <= j

Greatest(S) == CHOOSE i \in S : \A j \in S : j <= i

ScoreAt(i) == StoredMessages[i].signals.urgency_score

\* (a): at least three numeric scores, strictly increasing across the first,
\* the second-to-last and the last recorded value
SustainedUrgency ==
    /\ Cardinality(ScoredPositions) >= 3
    /\ LET first == Least(ScoredPositions)
           last == Greatest(ScoredPositions)
           before == Greatest(ScoredPositions \ {last})
       IN  ScoreAt(first) < ScoreAt(before) /\ ScoreAt(before) < ScoreAt(last)

\* (b): the first message with an irreversible action is at index > 0
IrreversibleIntroducedLater ==
    IrreversiblePositions # {} /\ Least(IrreversiblePositions) - 1 > 0

\* C19: detect_escalation returns escalation=true if and only if (a) the
\* stored messages carry at least three numeric urgency_score values that
\* strictly increase across the first, the second-to-last and the last
\* recorded value, and (b) some stored message carries a non-empty
\* irreversible_actions list and the first such message is at history index
\* > 0; in every other case it returns escalation=false with a reason string.
C19_EscalationIff ==
    escalation # Absent =>
        /\ escalation.escalation = (SustainedUrgency /\ IrreversibleIntroducedLater)
        /\ ~escalation.escalation =>
                /\ DOMAIN escalation = {"escalation", "reason"}
                /\ escalation.reason \in
                        {"Insufficient conversation history",
                         "No sustained escalation pattern detected"}

\* an escalation found although one stored message carries no score
C19_Witness ==
    /\ escalation # Absent
    /\ escalation.escalation
    /\ Len(StoredMessages) = 4
    /\ Cardinality(ScoredPositions) = 3
    /\ escalation.irreversible_first_seen_at_turn = 2

-----------------------------------------------------------------------------
(* Properties of the pipeline under step failures, checked under SpecFaults *)

\* the steps that failed in the latest request
FailedSteps == engagement[1].failed

\* C20: whichever of the pipeline steps fails, honeypot_endpoint_logic returns
\* an envelope with the fields scam_detected, risk_score, decision_confidence,
\* agent_reply, extracted_intelligence, engagement_metrics and explanation;
\* when the policy step fails the verdict is scam_detected=false, risk_score
\* UNKNOWN, decision_confidence low, and when signal extraction fails (and
\* the policy step does not) the verdict is the one the policy gives for
\* empty signals.
C20_EnvelopeUnderFailures ==
    request # Absent =>
        LET r == response[request.conversation_id]
        IN  /\ DOMAIN r = {"scam_detected", "risk_score", "decision_confidence",
                           "agent_reply", "extracted_intelligence",
                           "engagement_metrics", "explanation"}
            /\ "policy" \in FailedSteps =>
                    /\ r.scam_detected = FALSE
                    /\ r.risk_score = "UNKNOWN"
                    /\ r.decision_confidence = "low"
            /\ ("signals" \in FailedSteps /\ "policy" \notin FailedSteps) =>
                    /\ r.explanation.hard_signals = EmptyDict
                    /\ r.explanation.soft_signals = EmptyDict
                    /\ r.scam_detected = EmptyGate.scam
                    /\ r.risk_score = EmptyGate.risk
                    /\ r.decision_confidence = EmptyGate.confidence
                    /\ r.explanation.risk_band = EmptyGate.risk_band
                    /\ r.explanation.reasons = EmptyGate.reasons

\* the policy and the reply fail on a live credential request: the verdict
\* is UNKNOWN and the reply is the canned sentence
C20_Witness ==
    /\ request # Absent
    /\ request.message = "We need your OTP to verify account"
    /\ request.execution_mode = "live"
    /\ FailedSteps = {"policy", "reply"}
    /\ response[request.conversation_id].risk_score = "UNKNOWN"
    /\ response[request.conversation_id].agent_reply = "I didn't understand. Can you repeat?"

\* C21: a request for conversation A, whether it succeeds or fails at any
\* step, leaves the stored history of every other conversation_id unchanged.
C21_OtherHistoriesUnchanged ==
    [][\A c \in ConversationIds \ {request'.conversation_id} :
            get_history(CONVERSATIONS', c) = get_history(CONVERSATIONS, c)]_vars

\* a live request whose append and reply steps fail while the other
\* conversation holds two entries
C21_Witness ==
    /\ request # Absent
    /\ request.conversation_id # OtherConversation
    /\ request.execution_mode = "live"
    /\ FailedSteps = {"append", "reply"}
    /\ Len(get_history(CONVERSATIONS, OtherConversation)) = Len(OtherHistory)
    /\ handled = MaxFaultyRequests

-----------------------------------------------------------------------------
(* Properties of the trajectory label and of the first turn, checked under
   SpecConversation *)

\* the most severe band among the prior decisions
HighestPriorBand ==
    CHOOSE b \in {conversation_history[i].risk_band : i \in 1..Len(conversation_history)} :
        \A i \in 1..Len(conversation_history) :
            Severity(conversation_history[i].risk_band) <= Severity(b)

\* the label C22 prescribes for the decision of a non-first turn
PrescribedTrajectory ==
    LET preceding == conversation_history[Len(conversation_history)]
        single == evaluate_single_turn(signals)
    IN  IF Severity(decision.risk_band) > Severity(preceding.risk_band)
        THEN "escalating"
        ELSE IF /\ Severity(single.risk_band) < Severity(HighestPriorBand)
                /\ decision.risk_band = HighestPriorBand
        THEN "floor_applied"
        ELSE "stable"

\* C22: for a non-first turn, risk_trajectory = escalating exactly when the
\* returned risk band is strictly higher than the band of the immediately
\* preceding decision; otherwise floor_applied when the single-turn band was
\* below the highest prior band and was raised to it; otherwise stable.
C22_TrajectoryLabel ==
    (decision # Absent /\ conversation_history # <<>>) =>
        decision.risk_trajectory = PrescribedTrajectory

\* C23: for the first turn of a conversation (an absent or an empty prior
\* list), the decision returned by evaluate_message has turn_count = 1 and
\* risk_trajectory = initial.
C23_FirstTurnOfEntryPoint ==
    (/\ decision # Absent
     /\ conversation_history = <<>>
     /\ decision = evaluate_message(signals, conversation_history)) =>
        /\ decision.turn_count = 1
        /\ decision.risk_trajectory = "initial"

-----------------------------------------------------------------------------
(* Properties of the lazily initialised LLM client, checked under SpecReply *)

\* the LLM-branch replies of the process, as positions of the log
LLMReplies == {k \in 1..Len(engagement) : engagement[k].branch = "llm"}

\* the LLM-branch replies that read the environment for the API key: the
\* calls that found no memoized client
EnvironmentReads == {k \in LLMReplies : engagement[k].memo = None}

\* C24: over any sequence of LLM-branch replies in one process the
\* environment is read for the API key at most once; if the key is missing at
\* that first read, every later LLM-branch reply is the canned fallback, even
\* if the key is set in the environment afterwards.
C24_KeyReadOnce ==
    /\ Cardinality(EnvironmentReads) <= 1
    /\ \A j, k \in LLMReplies :
            (/\ j < k
             /\ \A i \in LLMReplies : j <= i
             /\ ~engagement[j].api_key) =>
                engagement[k].reply =
                    NoClientFallback(Analysed[LatestScammerText].language)

-----------------------------------------------------------------------------
(* Properties of _detect_language, checked under SpecLanguage *)

\* the language C25 prescribes for d Devanagari characters, l Latin letters
\* and m marker hits; the ratio d / (d + l) is compared in integers
PrescribedLanguage(d, l, m) ==
    IF d + l = 0 THEN "english"
    ELSE IF 10 * d > 8 * (d + l) THEN "hindi"
    ELSE IF m > 0 \/ (10 * d > d + l /\ 10 * d <= 8 * (d + l)) THEN "hinglish"
    ELSE "english"

\* C25: _detect_language returns english when d + l = 0; hindi when
\* d/(d+l) > 0.8; otherwise hinglish when m > 0 or 0.1 < d/(d+l) <= 0.8 (so
\* a ratio of exactly 0.8 with m = 0 gives hinglish); otherwise english.
C25_LanguageByCounts ==
    \A k \in 1..Len(engagement) :
        engagement[k].language =
            PrescribedLanguage(engagement[k].devanagari, engagement[k].latin,
                               engagement[k].markers)

-----------------------------------------------------------------------------
(* Properties of the authority validation in the pipeline, checked under Spec *)

\* the entities of the static registry, as a message names them
RegisteredAuthorityNames ==
    {"hdfc bank", "icici bank", "sbi bank", "axis bank", "kotak bank", "rbi",
     "fedex", "bluedart", "blue dart", "dhl", "police"}

\* the message names an authority of the static registry
NamesRegisteredAuthority(message) ==
    \E name \in RegisteredAuthorityNames : WordSearch(Lower(message), name)

\* the message names an authority the extraction patterns know, registered
\* or not
NamesAuthority(message) ==
    \/ NamesRegisteredAuthority(message)
    \/ \E name \in {"cybercrime", "cyber crime", "ncb", "incometax", "income tax", "customs"} :
            WordSearch(Lower(message), name)

\* C26: in every request handled, explanation.validation holds the result of
\* the authority validator: for a message naming an authority of the static
\* registry it reports authority_claimed=true and authority_exists=true, and
\* for a message naming none it reports authority_claimed=false.
C26_ValidationReported ==
    request # Absent =>
        LET validation == response[request.conversation_id].explanation.validation
        IN  /\ "authority_claimed" \in DOMAIN validation
            /\ NamesRegisteredAuthority(request.message) =>
                    /\ validation.authority_claimed = TRUE
                    /\ validation.authority_exists = TRUE
            /\ ~NamesAuthority(request.message) =>
                    validation.authority_claimed = FALSE

-----------------------------------------------------------------------------
(* Properties of concurrent requests, checked under SpecConcurrent *)

\* the entries of the engaged conversation in one sequential order: the
\* earlier ones, then those of the append_message calls as they were made
SequentialOrder == EarlierHistory \o AppendedTo(EngagedConversation)

\* the scammer entries among the append_message calls
ScammerAppends ==
    {i \in 1..Len(appended) : appended[i][2].role = "scammer"}

\* C27: when two requests for the same conversation_id are handled
\* concurrently, no appended message is lost and the stored history equals
\* the last MAX_HISTORY entries of a sequential ordering of all their
\* append_message calls, in which the appends of one request are not
\* separated by those of the other.
C27_SerializedPerConversation ==
    /\ get_history(CONVERSATIONS, EngagedConversation) = LastOf(SequentialOrder, MAX_HISTORY)
    /\ Cardinality(ScammerAppends) = handled
    /\ \A i \in 1..Len(appended) :
            appended[i][2].role = "agent" =>
                /\ i - 1 \in ScammerAppends
                /\ appended[i - 1][3] = appended[i][3]

\* live requests were suspended together and resumed in the reverse of
\* their arrival order, and the history was trimmed
C27_Witness ==
    /\ pending = {}
    /\ handled = MaxConcurrent
    /\ Len(appended) = 2 * MaxConcurrent
    /\ appended[1][3] = MaxConcurrent
    /\ appended[Len(appended)][3] = 1
    /\ Len(SequentialOrder) > MAX_HISTORY

\* C29: in every decision returned, single-turn or after any sequence of
\* prior turns, scam_detected = true implies engagement_stance is
\* ENGAGE_DEFENSIVE or ENGAGE_HONEYPOT (never ALLOW), and risk band HIGH or
\* CRITICAL implies scam_detected = true.
C29_StanceAndBandAgreeWithScam ==
    decision # Absent =>
        /\ decision.scam_detected =>
                decision.engagement_stance \in {"ENGAGE_DEFENSIVE", "ENGAGE_HONEYPOT"}
        /\ decision.risk_band \in {"HIGH", "CRITICAL"} => decision.scam_detected

-----------------------------------------------------------------------------
(* The pipeline's verdict against the policy on the full signal record,
   checked under Spec *)

\* evaluate_single_turn on the full extract_signals record of each message
FullRecordDecision ==
    [message \in Messages |-> evaluate_single_turn(extract_signals(message))]

\* C28: for every message, the verdict the pipeline computes with policy_gate
\* from the hard and soft signal views (scam flag, risk band, confidence)
\* equals the verdict evaluate_single_turn computes from the full
\* extract_signals record of the same message.
C28_GateEqualsSingleTurn ==
    request # Absent =>
        LET r == response[request.conversation_id]
            d == FullRecordDecision[request.message]
        IN  /\ r.scam_detected = d.scam_detected
            /\ r.risk_score = d.risk_band
            /\ r.explanation.risk_band = d.risk_band
            /\ r.decision_confidence = d.confidence

-----------------------------------------------------------------------------
(* Tiers that signal records of extract_signals can reach, checked under
   SpecTurn *)

\* the record has multiple_urgency_layers as extract_contextual_signals sets
\* it: true exactly when at least two of urgency, authority, fear and reward
\* are present
LayersAsExtracted(s) ==
    s.contextual.multiple_urgency_layers =
        (Cardinality({t \in {"urgency", "authority", "fear", "reward"} :
            \/ t = "urgency" /\ s.psychological.urgency_present
            \/ t = "authority" /\ s.psychological.authority_claimed
            \/ t = "fear" /\ s.psychological.fear_tactics_present
            \/ t = "reward" /\ s.psychological.reward_baiting}) >= 2)

\* the first reason of the decision starts with the given text
DecidedWith(prefix) ==
    /\ decision.reasons # <<>>
    /\ Len(decision.reasons[1]) >= Len(prefix)
    /\ SubSeq(decision.reasons[1], 1, Len(prefix)) = prefix

\* C30: for signal records as produced by extract_signals, the threat-based
\* tier (authority + fear) is never the tier that decides a verdict, because
\* the compound-pressure tier always applies first, and the
\* suspicious-authority MEDIUM tier decides only when excessive_respect is
\* true.
C30_ThreatTierUnreachable ==
    (decision # Absent /\ LayersAsExtracted(signals)) =>
        /\ ~DecidedWith("THREAT-BASED SCAM")
        /\ (signals.psychological.authority_claimed
            /\ signals.psychological.fear_tactics_present) =>
                FirstTier(signals) < 6
        /\ DecidedWith("Suspicious authority claim") =>
                /\ signals.linguistic.excessive_respect
                /\ decision.risk_band = "MEDIUM"

\* an authority claim with fear tactics and no action, decided by the
\* compound-pressure tier
C30_Witness ==
    /\ decision # Absent
    /\ LayersAsExtracted(signals)
    /\ signals.psychological.authority_claimed
    /\ signals.psychological.fear_tactics_present
    /\ ~signals.psychological.urgency_present
    /\ signals.irreversible.requested_actions = {}
    /\ DecidedWith("COMPOUND PRESSURE TACTICS")
    /\ decision.risk_band = "HIGH"

=============================================================================
